---------------------------- MODULE Spec2Model ----------------------------
(***************************************************************************)
(* Model of the dependency-expression engine of entropy's PortagePlugin    *)
(* (src/libraries/entropy/spm.py): paren_reduce, use_reduce,               *)
(* paren_normalize, paren_choose / dep_and_select / dep_or_select and      *)
(* calculate_dependencies.                                                 *)
(*                                                                         *)
(* Python values are modelled by tagged records:                           *)
(*   a string is Str(s) with s a sequence of one-character strings,        *)
(*   a list   is Lst(c) with c a sequence of values.                       *)
(* A call's outcome is a record [exc, val, warn]: exc = "" when the call   *)
(* returned val, otherwise the name of the exception type it raised.       *)
(***************************************************************************)
EXTENDS Integers, Sequences, FiniteSets, TLC

VARIABLES
    pc,          \* position in the pipeline / which call has completed
    mystr,       \* the raw dependency string handed to paren_reduce
    uselist,     \* use_reduce's uselist (set of flag names)
    masklist,    \* use_reduce's masklist
    matchall,    \* use_reduce's matchall
    excludeall,  \* use_reduce's excludeall
    installed,   \* atoms for which get_installed_atom() is not None
    parsed,      \* outcome of paren_reduce
    reduced,     \* outcome of use_reduce
    normalized,  \* outcome of paren_normalize
    normalized2, \* outcome of paren_normalize applied to normalized
    chosen,      \* outcome of paren_choose or paren_license_choose
    fields,      \* calculate_dependencies: raw field strings
    metadata,    \* calculate_dependencies: outcome
    enabled_flags, \* usedeps_reduce's enabled_useflags
    usedeps,     \* outcome of usedeps_reduce
    cacher,      \* the EntropyCacher singleton's fields
    disk,        \* the objects entropy.dump holds on disk, by key
    procs,       \* the forked writer processes: what each has left to write
    threads,     \* each thread's position in its call and its locals
    calls        \* what the callers have done: pushes counted, latest data

vars == <<pc, mystr, uselist, masklist, matchall, excludeall, installed,
          parsed, reduced, normalized, normalized2, chosen, fields, metadata,
          enabled_flags, usedeps, cacher, disk, procs, threads, calls>>

spm_vars == <<pc, mystr, uselist, masklist, matchall, excludeall, installed,
              parsed, reduced, normalized, normalized2, chosen, fields,
              metadata, enabled_flags, usedeps>>

cacher_vars == <<cacher, disk, procs, threads, calls>>

-----------------------------------------------------------------------------
(* Python values and call outcomes *)

Str(s) == [k |-> "s", s |-> s, c |-> <<>>]
Lst(c) == [k |-> "l", s |-> <<>>, c |-> c]

IsStr(v) == v.k = "s"
IsList(v) == v.k = "l"

\* bool(v) for a string or a list
Truthy(v) == IF IsStr(v) THEN Len(v.s) > 0 ELSE Len(v.c) > 0

Ok(v) == [exc |-> "", val |-> v, warn |-> {}]
Raise(e) == [exc |-> e, val |-> Lst(<<>>), warn |-> {}]
Unset == [exc |-> "unset", val |-> Lst(<<>>), warn |-> {}]

InvalidDependString == "InvalidDependString"

-----------------------------------------------------------------------------
(* String primitives used by the code *)

\* s.find(ch): the first index of ch in s (1-based), 0 when absent
Find(s, ch) ==
    IF \E i \in 1..Len(s) : s[i] = ch
    THEN CHOOSE i \in 1..Len(s) : s[i] = ch /\ \A j \in 1..(i-1) : s[j] # ch
    ELSE 0

\* s.split(ch, 1) when ch occurs at index i: the two parts
Before(s, i) == SubSeq(s, 1, i - 1)
After(s, i) == SubSeq(s, i + 1, Len(s))

\* s.split(" "): the pieces between single spaces, empty pieces included
RECURSIVE Split(_)
Split(s) ==
    LET i == Find(s, " ")
    IN  IF i = 0 THEN <<Str(s)>>
        ELSE <<Str(Before(s, i))>> \o Split(After(s, i))

\* strip_empty: removes the empty elements of a list
strip_empty(myarr) == SelectSeq(myarr, LAMBDA x : Truthy(x))

\* s.endswith("?") / s[-1] == "?" on a non-empty string
EndsWithQ(s) == Len(s) > 0 /\ s[Len(s)] = "?"

\* the concatenation of a sequence of sequences
RECURSIVE Concat(_)
Concat(parts) == IF Len(parts) = 0 THEN <<>> ELSE Head(parts) \o Concat(Tail(parts))

OrTok == <<"|", "|">>
AndTok == <<"&", "&">>

-----------------------------------------------------------------------------
(* paren_reduce *)

\* the body of "while mystr:" with the accumulated mylist; cur is the value
\* bound to mystr (a string, or after a bad unpack any list element)
RECURSIVE paren_reduce_loop(_, _)

\* the loop with "mylist = mylist + subsec": a group's elements are spliced
\* into the enclosing list
paren_reduce_loop_Spliced(mylist, cur) ==
    IF ~Truthy(cur) THEN Ok(Lst(mylist))
    ELSE IF IsList(cur) THEN Raise("AttributeError")
    ELSE
    LET s == cur.s
        left_paren == Find(s, "(")
        right_paren == Find(s, ")")
        has_left_paren == left_paren # 0
        has_right_paren == right_paren # 0
        Continue(freesec, hasSub, subsec, tail) ==
            paren_reduce_loop(
                mylist
                  \o (IF Len(freesec) > 0 THEN strip_empty(Split(freesec)) ELSE <<>>)
                  \o (IF hasSub THEN subsec.c ELSE <<>>),
                tail)
    IN  IF ~has_left_paren /\ ~has_right_paren
        THEN Continue(s, FALSE, Str(<<>>), Str(<<>>))
        ELSE IF s[1] = ")"
        THEN Ok(Lst(<<Lst(mylist), Str(Tail(s))>>))
        ELSE IF has_left_paren /\ ~has_right_paren
        THEN Raise(InvalidDependString)
        ELSE IF has_left_paren /\ left_paren < right_paren
        THEN LET r == paren_reduce_loop(<<>>, Str(After(s, left_paren)))
             IN  IF r.exc # "" THEN r
                 ELSE IF Len(r.val.c) # 2 THEN Raise("ValueError")
                 ELSE Continue(Before(s, left_paren), TRUE, r.val.c[1], r.val.c[2])
        ELSE Ok(Lst(<<Lst(mylist \o strip_empty(Split(Before(s, right_paren)))),
                      Str(After(s, right_paren))>>))

paren_reduce_loop(mylist, cur) ==
    IF ~Truthy(cur) THEN Ok(Lst(mylist))
    ELSE IF IsList(cur) THEN Raise("AttributeError")
    ELSE
    LET s == cur.s
        left_paren == Find(s, "(")
        right_paren == Find(s, ")")
        has_left_paren == left_paren # 0
        has_right_paren == right_paren # 0
        \* mystr = tail; mylist grows by freesec's tokens and by subsec
        Continue(freesec, hasSub, subsec, tail) ==
            paren_reduce_loop(
                mylist
                  \o (IF Len(freesec) > 0 THEN strip_empty(Split(freesec)) ELSE <<>>)
                  \o (IF hasSub THEN <<subsec>> ELSE <<>>),
                tail)
    IN  IF ~has_left_paren /\ ~has_right_paren
        THEN Continue(s, FALSE, Str(<<>>), Str(<<>>))
        ELSE IF s[1] = ")"
        THEN Ok(Lst(<<Lst(mylist), Str(Tail(s))>>))
        ELSE IF has_left_paren /\ ~has_right_paren
        THEN Raise(InvalidDependString)
        ELSE IF has_left_paren /\ left_paren < right_paren
        THEN LET r == paren_reduce_loop(<<>>, Str(After(s, left_paren)))
             IN  IF r.exc # "" THEN r
                 \* subsec,tail = self.paren_reduce(subsec)
                 ELSE IF Len(r.val.c) # 2 THEN Raise("ValueError")
                 ELSE Continue(Before(s, left_paren), TRUE, r.val.c[1], r.val.c[2])
        ELSE Ok(Lst(<<Lst(mylist \o strip_empty(Split(Before(s, right_paren)))),
                      Str(After(s, right_paren))>>))

paren_reduce(str) == paren_reduce_loop(<<>>, str)

-----------------------------------------------------------------------------
(* use_reduce *)

\* v[-1] == "?" for a non-empty string or list v
LastIsQ(v) ==
    IF IsStr(v) THEN v.s[Len(v.s)] = "?"
    ELSE v.c[Len(v.c)] = Str(<<"?">>)

\* the first loop without its "not isinstance(deparray[x+1], list)" test
MissingAtomList_LastOnly(deparray) ==
    \E x \in 1..Len(deparray) :
        /\ IsStr(deparray[x])
        /\ deparray[x].s \in {OrTok, AndTok}
        /\ x = Len(deparray)

\* "Quick validity checks": the first loop, over "||" and "&&"
MissingAtomList(deparray) ==
    \E x \in 1..Len(deparray) :
        /\ IsStr(deparray[x])
        /\ deparray[x].s \in {OrTok, AndTok}
        /\ (x = Len(deparray) \/ ~IsList(deparray[x + 1]))

\* "Quick validity checks": deparray[-1][-1] == "?"
ConditionalWithoutTarget(deparray) ==
    /\ Len(deparray) > 0
    /\ Truthy(deparray[Len(deparray)])
    /\ LastIsQ(deparray[Len(deparray)])

\* "Pull any other use conditions and the following atom or list into a
\* separate array": the while loop that fills newdeparray from mydeparray
RECURSIVE PullConditions(_, _)

\* the pull with "if" in place of "while": one element follows the guard
PullConditions_Once(newdeparray, mydeparray) ==
    IF Len(mydeparray) > 0
    THEN [exc |-> "", nd |-> Append(newdeparray, Head(mydeparray)),
          rest |-> Tail(mydeparray)]
    ELSE [exc |-> "ValueError", nd |-> newdeparray, rest |-> mydeparray]

PullConditions(newdeparray, mydeparray) ==
    LET last == newdeparray[Len(newdeparray)]
    IN  IF ~IsStr(last)
        THEN [exc |-> "", nd |-> newdeparray, rest |-> mydeparray]
        ELSE IF Len(last.s) = 0
        THEN [exc |-> "IndexError", nd |-> newdeparray, rest |-> mydeparray]
        ELSE IF ~EndsWithQ(last.s)
        THEN [exc |-> "", nd |-> newdeparray, rest |-> mydeparray]
        ELSE IF Len(mydeparray) > 0
        THEN PullConditions(Append(newdeparray, Head(mydeparray)), Tail(mydeparray))
        ELSE [exc |-> "ValueError", nd |-> newdeparray, rest |-> mydeparray]

\* the negated branch without its "or head_key in excludeall"
NegatedFails_IgnoresExcludeall(head_key, use, excl, all) ==
    ~all /\ head_key \in use

\* the negated branch with excludeall looked at under matchall only
NegatedFails_ExcludeallUnderMatchall(head_key, use, excl, all) ==
    (~all /\ head_key \in use) \/ (all /\ head_key \in excl)

\* the negated branch of "Check that each flag matches": TRUE when the
\* guard !head_key? fails
NegatedFails(head_key, use, excl, all) ==
    (~all /\ head_key \in use) \/ head_key \in excl

\* the unnegated branch without its "head not in uselist" test
PositiveCheck_IgnoresUselist(head, use, mask, all) ==
    IF head \notin mask THEN "pass" ELSE "masked"

\* the unnegated branch with matchall tested before masklist
PositiveCheck_MatchallFirst(head, use, mask, all) ==
    IF all THEN "pass"
    ELSE IF head \notin mask
    THEN IF head \notin use THEN "fail" ELSE "pass"
    ELSE "masked"

\* the unnegated branch: "fail" (ismatch = False; break), "masked"
\* (ismatch = False, no break) or "pass"
PositiveCheck(head, use, mask, all) ==
    IF head \notin mask
    THEN IF ~all /\ head \notin use THEN "fail" ELSE "pass"
    ELSE "masked"

RECURSIVE FlagsMatch(_, _, _, _, _, _, _)

\* the for loop without the final "else: ismatch = False" of a masked flag
FlagsMatch_MaskIgnored(conds, i, ismatch, use, mask, all, excl) ==
    IF i > Len(conds) THEN (IF ismatch THEN "match" ELSE "nomatch")
    ELSE
    LET head == SubSeq(conds[i].s, 1, Len(conds[i].s) - 1)
    IN  IF Len(head) = 0 THEN "missing"
        ELSE IF head[1] = "!"
        THEN LET head_key == Tail(head)
             IN  IF Len(head_key) = 0 THEN "missing"
                 ELSE IF NegatedFails(head_key, use, excl, all) THEN "nomatch"
                 ELSE FlagsMatch(conds, i + 1, ismatch, use, mask, all, excl)
        ELSE IF PositiveCheck(head, use, mask, all) = "fail" THEN "nomatch"
        ELSE FlagsMatch(conds, i + 1, ismatch, use, mask, all, excl)

\* "Check that each flag matches": the for loop over newdeparray[:-1] from
\* index i on; the result is "match", "nomatch" or "missing" (missing_flag)
FlagsMatch(conds, i, ismatch, use, mask, all, excl) ==
    IF i > Len(conds) THEN (IF ismatch THEN "match" ELSE "nomatch")
    ELSE
    LET head == SubSeq(conds[i].s, 1, Len(conds[i].s) - 1)
    IN  IF Len(head) = 0 THEN "missing"
        ELSE IF head[1] = "!"
        THEN LET head_key == Tail(head)
             IN  IF Len(head_key) = 0 THEN "missing"
                 ELSE IF NegatedFails(head_key, use, excl, all) THEN "nomatch"
                 ELSE FlagsMatch(conds, i + 1, ismatch, use, mask, all, excl)
        ELSE LET chk == PositiveCheck(head, use, mask, all)
             IN  IF chk = "fail" THEN "nomatch"
                 ELSE FlagsMatch(conds, i + 1, ismatch /\ chk = "pass",
                                 use, mask, all, excl)

\* "Deprecation checks": the kinds of warning sent to updateProgress
Deprecations(newdeparray) ==
    LET target == newdeparray[Len(newdeparray)]
    IN  (IF IsList(target) /\ Len(target.c) = 0 THEN {"EmptyTarget"} ELSE {})
        \cup (IF Len(newdeparray) # 2 THEN {"NestedUse"} ELSE {})

RECURSIVE use_reduce(_, _, _, _, _)
RECURSIVE use_reduce_loop(_, _, _, _, _, _, _)

\* "while mydeparray:" with the accumulated rlist and warnings
use_reduce_loop(mydeparray, rlist, warn, use, mask, all, excl) ==
    IF Len(mydeparray) = 0 THEN [exc |-> "", val |-> Lst(rlist), warn |-> warn]
    ELSE
    LET head == Head(mydeparray)
        rest == Tail(mydeparray)
    IN  IF IsList(head)
        THEN LET additions == use_reduce(head.c, use, mask, all, excl)
             IN  IF additions.exc # "" THEN additions
                 ELSE IF Truthy(additions.val)
                 THEN use_reduce_loop(rest, Append(rlist, additions.val),
                                      warn \cup additions.warn, use, mask, all, excl)
                 ELSE IF Len(rlist) > 0 /\ rlist[Len(rlist)] = Str(OrTok)
                 THEN use_reduce_loop(rest, Append(rlist, Lst(<<>>)),
                                      warn \cup additions.warn, use, mask, all, excl)
                 ELSE use_reduce_loop(rest, rlist,
                                      warn \cup additions.warn, use, mask, all, excl)
        ELSE IF Len(head.s) = 0 THEN Raise("IndexError")
        ELSE IF EndsWithQ(head.s)
        THEN LET pulled == PullConditions(<<head>>, rest)
                 newdeparray == pulled.nd
                 target == newdeparray[Len(newdeparray)]
                 warn2 == warn \cup Deprecations(newdeparray)
                 m == FlagsMatch(SubSeq(newdeparray, 1, Len(newdeparray) - 1),
                                 1, TRUE, use, mask, all, excl)
             IN  IF pulled.exc # "" THEN Raise(pulled.exc)
                 ELSE IF m = "missing" THEN Raise(InvalidDependString)
                 ELSE IF m = "nomatch"
                 THEN use_reduce_loop(pulled.rest, rlist, warn2, use, mask, all, excl)
                 ELSE IF IsList(target)
                 THEN LET additions == use_reduce(target.c, use, mask, all, excl)
                      IN  IF additions.exc # "" THEN additions
                          ELSE use_reduce_loop(
                                  pulled.rest,
                                  IF Truthy(additions.val)
                                  THEN Append(rlist, additions.val) ELSE rlist,
                                  warn2 \cup additions.warn, use, mask, all, excl)
                 ELSE use_reduce_loop(pulled.rest, Append(rlist, target),
                                      warn2, use, mask, all, excl)
        ELSE use_reduce_loop(rest, Append(rlist, head), warn, use, mask, all, excl)

use_reduce(deparray, use, mask, all, excl) ==
    IF MissingAtomList(deparray) THEN Raise(InvalidDependString)
    ELSE IF ConditionalWithoutTarget(deparray) THEN Raise(InvalidDependString)
    ELSE use_reduce_loop(deparray, <<>>, {}, use, mask, all, excl)

-----------------------------------------------------------------------------
(* paren_normalize *)

\* what iter(v) yields: the elements of a list, the characters of a string
Elems(v) ==
    IF IsList(v) THEN v.c ELSE [i \in 1..Len(v.s) |-> Str(<<v.s[i]>>)]

\* _zap_parens(src, dest, disjunction) with src the elements not yet
\* consumed from the iterator; the outcome's val is dest
RECURSIVE zap_parens(_, _, _)
zap_parens(src, dest, disjunction) ==
    IF Len(src) = 0 THEN Ok(Lst(dest))
    ELSE
    LET x == Head(src)
    IN  IF IsStr(x)
        THEN IF x.s = OrTok
             THEN IF Len(src) < 2 THEN Raise("StopIteration")
                  ELSE LET r == zap_parens(Elems(src[2]), <<>>, TRUE)
                       IN  IF r.exc # "" THEN r
                           ELSE IF Len(r.val.c) = 1
                           THEN zap_parens(SubSeq(src, 3, Len(src)),
                                           Append(dest, r.val.c[1]), disjunction)
                           ELSE zap_parens(SubSeq(src, 3, Len(src)),
                                           dest \o <<Str(OrTok), r.val>>, disjunction)
             ELSE IF EndsWithQ(x.s)
             THEN IF Len(src) < 2 THEN Raise("StopIteration")
                  ELSE LET r == zap_parens(Elems(src[2]), <<>>, FALSE)
                       IN  IF r.exc # "" THEN r
                           ELSE zap_parens(SubSeq(src, 3, Len(src)),
                                           dest \o <<x, r.val>>, disjunction)
             ELSE zap_parens(Tail(src), Append(dest, x), disjunction)
        ELSE IF disjunction
             THEN LET r == zap_parens(Elems(x), <<>>, FALSE)
                  IN  IF r.exc # "" THEN r
                      ELSE IF Len(r.val.c) = 1
                      THEN zap_parens(Tail(src), Append(dest, r.val.c[1]), disjunction)
                      ELSE zap_parens(Tail(src), Append(dest, r.val), disjunction)
             ELSE LET r == zap_parens(Elems(x), dest, FALSE)
                  IN  IF r.exc # "" THEN r
                      ELSE zap_parens(Tail(src), r.val.c, disjunction)

\* paren_normalize(src): a list filled by _zap_parens(src, self)
paren_normalize(src) == zap_parens(Elems(src), <<>>, FALSE)

-----------------------------------------------------------------------------
(* paren_choose, dep_and_select, dep_or_select *)

\* repr(v) of a byte string without quotes or escapes, or of a list
RECURSIVE Repr(_)
RECURSIVE ReprJoin(_)
ReprJoin(c) ==
    IF Len(c) = 0 THEN <<>>
    ELSE IF Len(c) = 1 THEN Repr(c[1])
    ELSE Repr(c[1]) \o <<",", " ">> \o ReprJoin(Tail(c))
Repr(v) ==
    IF IsStr(v) THEN <<"'">> \o v.s \o <<"'">>
    ELSE <<"[">> \o ReprJoin(v.c) \o <<"]">>

\* str(v)
PyStr(v) == IF IsStr(v) THEN v.s ELSE Repr(v)

\* get_installed_atom(x) != None
get_installed_atom(x, inst) == x.s \in inst

\* "for y in x: ... return [y]": the first installed element of x, if any
FirstInstalled(x, inst) ==
    LET hits == {i \in 1..Len(x) : get_installed_atom(x[i], inst)}
    IN  IF hits = {} THEN <<>>
        ELSE <<x[CHOOSE i \in hits : \A j \in hits : i <= j]>>

RECURSIVE dep_and_select_loop(_, _, _)
RECURSIVE dep_or_select_loop(_, _)

dep_and_select(and_list, inst) == dep_and_select_loop(Elems(and_list), <<>>, inst)

dep_or_select(or_list, inst) == dep_or_select_loop(Elems(or_list), inst)

\* dep_and_select without its "now verify if all are satisfied" loop
dep_and_select_loop_Unverified(items, newlist, inst) ==
    IF Len(items) = 0 THEN Ok(Lst(newlist))
    ELSE
    LET x == Head(items)
    IN  IF x = Str(OrTok)
        THEN IF Len(items) < 2 THEN Raise("IndexError")
             ELSE LET r == dep_or_select(items[2], inst)
                  IN  IF r.exc # "" THEN r
                      ELSE dep_and_select_loop(SubSeq(items, 3, Len(items)),
                                               newlist \o r.val.c, inst)
        ELSE IF IsList(x)
        THEN LET r == dep_and_select(x, inst)
             IN  IF r.exc # "" THEN r
                 ELSE dep_and_select_loop(Tail(items), newlist \o r.val.c, inst)
        ELSE dep_and_select_loop(Tail(items), Append(newlist, x), inst)

\* the for loop of dep_and_select over the elements left, then the
\* "now verify if all are satisfied" loop
dep_and_select_loop(items, newlist, inst) ==
    IF Len(items) = 0
    THEN IF \A i \in 1..Len(newlist) : get_installed_atom(newlist[i], inst)
         THEN Ok(Lst(newlist)) ELSE Ok(Lst(<<>>))
    ELSE
    LET x == Head(items)
    IN  IF x = Str(OrTok)
        THEN IF Len(items) < 2 THEN Raise("IndexError")
             ELSE LET r == dep_or_select(items[2], inst)
                  IN  IF r.exc # "" THEN r
                      \* "if not x: x = str(...)" leaves newlist alone
                      ELSE dep_and_select_loop(SubSeq(items, 3, Len(items)),
                                               newlist \o r.val.c, inst)
        ELSE IF IsList(x)
        THEN LET r == dep_and_select(x, inst)
             IN  IF r.exc # "" THEN r
                 ELSE dep_and_select_loop(Tail(items), newlist \o r.val.c, inst)
        ELSE dep_and_select_loop(Tail(items), Append(newlist, x), inst)

\* the for loop of dep_or_select over the elements left
dep_or_select_loop(items, inst) ==
    IF Len(items) = 0 THEN Ok(Lst(<<>>))
    ELSE
    LET x == Head(items)
    IN  IF x = Str(OrTok)
        THEN IF Len(items) < 2 THEN Raise("IndexError")
             ELSE LET r == dep_or_select(items[2], inst)
                      y == IF r.exc = "" THEN FirstInstalled(r.val.c, inst) ELSE <<>>
                  IN  IF r.exc # "" THEN r
                      ELSE IF Len(y) > 0 THEN Ok(Lst(y))
                      ELSE dep_or_select_loop(SubSeq(items, 3, Len(items)), inst)
        ELSE IF IsList(x)
        THEN LET r == dep_and_select(x, inst)
             IN  IF r.exc # "" THEN r
                 ELSE IF Len(r.val.c) = 0 THEN dep_or_select_loop(Tail(items), inst)
                 ELSE r
        ELSE LET y == FirstInstalled(<<x>>, inst)
             IN  IF Len(y) > 0 THEN Ok(Lst(y))
                 ELSE dep_or_select_loop(Tail(items), inst)

RECURSIVE paren_choose_loop(_, _, _)

\* the for loop without its "if not next_item: do_skip = True; continue"
paren_choose_loop_NoEmptySkip(items, newlist, inst) ==
    IF Len(items) = 0 THEN Ok(Lst(newlist))
    ELSE
    LET item == Head(items)
    IN  IF item = Str(OrTok)
        THEN IF Len(items) < 2 THEN Raise("IndexError")
             ELSE LET next_item == items[2]
                      r == dep_or_select(next_item, inst)
                      after == SubSeq(items, 3, Len(items))
                  IN  IF r.exc # "" THEN r
                      ELSE IF Len(r.val.c) = 0
                      THEN paren_choose_loop(
                               after, Append(newlist, Str(PyStr(next_item))), inst)
                      ELSE paren_choose_loop(after, newlist \o r.val.c, inst)
        ELSE IF IsList(item)
        THEN LET r == dep_and_select(item, inst)
             IN  IF r.exc # "" THEN r
                 ELSE paren_choose_loop(Tail(items), newlist \o r.val.c, inst)
        ELSE paren_choose_loop(Tail(items), Append(newlist, item), inst)

\* the for loop of paren_choose over the elements left
paren_choose_loop(items, newlist, inst) ==
    IF Len(items) = 0 THEN Ok(Lst(newlist))
    ELSE
    LET item == Head(items)
    IN  IF item = Str(OrTok)
        THEN IF Len(items) < 2 THEN Raise("IndexError")
             ELSE LET next_item == items[2]
                      r == dep_or_select(next_item, inst)
                      after == SubSeq(items, 3, Len(items))
                  IN  IF ~Truthy(next_item)
                      THEN paren_choose_loop(after, newlist, inst)
                      ELSE IF r.exc # "" THEN r
                      ELSE IF Len(r.val.c) = 0
                      THEN paren_choose_loop(
                               after, Append(newlist, Str(PyStr(next_item))), inst)
                      ELSE paren_choose_loop(after, newlist \o r.val.c, inst)
        ELSE IF IsList(item)
        THEN LET r == dep_and_select(item, inst)
             IN  IF r.exc # "" THEN r
                 ELSE paren_choose_loop(Tail(items), newlist \o r.val.c, inst)
        ELSE paren_choose_loop(Tail(items), Append(newlist, item), inst)

paren_choose(dep_list, inst) == paren_choose_loop(Elems(dep_list), <<>>, inst)

-----------------------------------------------------------------------------
(* paren_license_choose, src_uri_paren_reduce, usedeps_reduce,              *)
(* _resolve_enabled_useflags                                                *)

RECURSIVE paren_license_choose(_)

\* paren_license_choose matching only the first item of a nested list
paren_license_choose_FirstOnly(dep_list) ==
    UNION {IF IsList(dep_list[i])
           THEN (IF Len(dep_list[i].c) = 0 THEN {}
                 ELSE paren_license_choose(<<dep_list[i].c[1]>>))
           ELSE IF dep_list[i].s # OrTok THEN {dep_list[i]} ELSE {}
           : i \in 1..Len(dep_list)}

\* paren_license_choose: the set behind the list(newlist) it returns
paren_license_choose(dep_list) ==
    UNION {IF IsList(dep_list[i]) THEN paren_license_choose(dep_list[i].c)
           ELSE IF dep_list[i].s # OrTok THEN {dep_list[i]} ELSE {}
           : i \in 1..Len(dep_list)}

\* the lists list(newlist) can be: the elements of the set in any order
Orderings(S) ==
    {seq \in [1..Cardinality(S) -> S] :
        \A i, j \in 1..Cardinality(S) : i # j => seq[i] # seq[j]}

Arrow == <<"-", ">">>

\* the for loop of src_uri_paren_reduce over the elements left
RECURSIVE src_uri_skip(_, _)
src_uri_skip(src_uris, skip_next) ==
    IF Len(src_uris) = 0 THEN <<>>
    ELSE IF skip_next THEN src_uri_skip(Tail(src_uris), FALSE)
    ELSE IF Head(src_uris) = Str(Arrow) THEN src_uri_skip(Tail(src_uris), TRUE)
    ELSE <<Head(src_uris)>> \o src_uri_skip(Tail(src_uris), FALSE)

src_uri_paren_reduce(src_uris) ==
    LET r == paren_reduce(src_uris)
    IN  IF r.exc # "" THEN r ELSE Ok(Lst(src_uri_skip(r.val.c, FALSE)))

\* s.find(ch, from): the first index of ch in s at or after from, else 0
FindFrom(s, ch, from) ==
    IF \E i \in from..Len(s) : s[i] = ch
    THEN CHOOSE i \in from..Len(s) :
            s[i] = ch /\ \A j \in from..(i - 1) : s[j] # ch
    ELSE 0

\* s.split(","): the pieces between commas, empty pieces included
RECURSIVE SplitComma(_)
SplitComma(s) ==
    LET i == Find(s, ",")
    IN  IF i = 0 THEN <<s>> ELSE <<Before(s, i)>> \o SplitComma(After(s, i))

\* entropyTools.dep_getusedeps: the clauses of the atom's [...] suffix
dep_getusedeps(depend) ==
    LET open_bracket == Find(depend, "[")
        close_bracket == FindFrom(depend, "]", open_bracket)
        use == SubSeq(depend, open_bracket + 1, close_bracket - 1)
    IN  IF open_bracket = 0 THEN [exc |-> "", deps |-> <<>>]
        ELSE IF close_bracket = 0 \/ Len(use) = 0
                \/ FindFrom(depend, "[", open_bracket + 1) # 0
                \/ \E i \in 1..Len(SplitComma(use)) : Len(SplitComma(use)[i]) = 0
        THEN [exc |-> "InvalidAtom", deps |-> <<>>]
        ELSE [exc |-> "", deps |-> SplitComma(use)]

\* entropyTools.remove_usedeps: the atom without its [...] suffix
RECURSIVE remove_usedeps(_, _)
remove_usedeps(depend, skip) ==
    IF Len(depend) = 0 THEN <<>>
    ELSE IF depend[1] = "]" THEN remove_usedeps(Tail(depend), skip - 1)
    ELSE IF depend[1] = "[" THEN remove_usedeps(Tail(depend), skip + 1)
    ELSE (IF skip = 0 THEN <<depend[1]>> ELSE <<>>)
            \o remove_usedeps(Tail(depend), skip)

\* strip_use(xuse)
strip_use(xuse) ==
    LET myuse == IF xuse[1] = "!" THEN Tail(xuse) ELSE xuse
    IN  IF myuse[Len(myuse)] \in {"=", "?"}
        THEN SubSeq(myuse, 1, Len(myuse) - 1) ELSE myuse

\* the rewrite with "flag?" handled as "flag="
rewrite_use_ConditionalAsEqual(use, enabled_useflags) ==
    LET last == use[Len(use)]
        s_use == strip_use(use)
    IN  IF use[1] = "!" /\ last \notin {"=", "?"} THEN <<>>
        ELSE IF last \in {"=", "?"}
        THEN IF use[1] = "!"
             THEN (IF s_use \in enabled_useflags THEN <<<<"-">> \o s_use>>
                   ELSE <<s_use>>)
             ELSE (IF s_use \in enabled_useflags THEN <<s_use>>
                   ELSE <<<<"-">> \o s_use>>)
        ELSE <<use>>

\* the rewrite without the branch that skips a bare "!flag"
rewrite_use_KeepsBareNegation(use, enabled_useflags) ==
    LET last == use[Len(use)]
        s_use == strip_use(use)
    IN  IF last = "="
        THEN IF use[1] = "!"
             THEN (IF s_use \in enabled_useflags THEN <<<<"-">> \o s_use>>
                   ELSE <<s_use>>)
             ELSE (IF s_use \in enabled_useflags THEN <<s_use>>
                   ELSE <<<<"-">> \o s_use>>)
        ELSE IF last = "?"
        THEN IF use[1] = "!"
             THEN (IF s_use \notin enabled_useflags THEN <<<<"-">> \o s_use>>
                   ELSE <<>>)
             ELSE (IF s_use \in enabled_useflags THEN <<s_use>> ELSE <<>>)
        ELSE <<use>>

\* what one clause adds to new_use_deps
rewrite_use(use, enabled_useflags) ==
    LET last == use[Len(use)]
        s_use == strip_use(use)
    IN  IF use[1] = "!" /\ last \notin {"=", "?"} THEN <<>>
        ELSE IF last = "="
        THEN IF use[1] = "!"
             THEN (IF s_use \in enabled_useflags THEN <<<<"-">> \o s_use>>
                   ELSE <<s_use>>)
             ELSE (IF s_use \in enabled_useflags THEN <<s_use>>
                   ELSE <<<<"-">> \o s_use>>)
        ELSE IF last = "?"
        THEN IF use[1] = "!"
             THEN (IF s_use \notin enabled_useflags THEN <<<<"-">> \o s_use>>
                   ELSE <<>>)
             ELSE (IF s_use \in enabled_useflags THEN <<s_use>> ELSE <<>>)
        ELSE <<use>>

\* ','.join(parts)
RECURSIVE JoinComma(_)
JoinComma(parts) ==
    IF Len(parts) = 0 THEN <<>>
    ELSE IF Len(parts) = 1 THEN parts[1]
    ELSE parts[1] \o <<",">> \o JoinComma(Tail(parts))

\* the body of usedeps_reduce's outer loop for one dependency
usedeps_reduce_one(dependency, enabled_useflags) ==
    LET use_deps == dep_getusedeps(dependency).deps
        new_use_deps == Concat([i \in 1..Len(use_deps) |->
                                  rewrite_use(use_deps[i], enabled_useflags)])
    IN  IF Len(use_deps) = 0 THEN dependency
        ELSE IF Len(new_use_deps) > 0
        THEN remove_usedeps(dependency, 0) \o <<"[">> \o JoinComma(new_use_deps)
                \o <<"]">>
        ELSE remove_usedeps(dependency, 0)

usedeps_reduce(dependencies, enabled_useflags) ==
    IF \E i \in 1..Len(dependencies) :
          dep_getusedeps(dependencies[i].s).exc # ""
    THEN Raise("InvalidAtom")
    ELSE Ok(Lst([i \in 1..Len(dependencies) |->
                    Str(usedeps_reduce_one(dependencies[i].s, enabled_useflags))]))

\* the resolution without the test against use_mask
resolve_enabled_useflags_MaskIgnored(iuse_list, use_list, use_mask, use_force) ==
    LET name(myiuse) == IF myiuse[1] \in {"+", "-"} THEN Tail(myiuse) ELSE myiuse
    IN  {name(iuse_list[i]) : i \in {j \in 1..Len(iuse_list) :
            name(iuse_list[j]) \in use_list \/ name(iuse_list[j]) \in use_force}}

\* _resolve_enabled_useflags(iuse_list, use_list) with the settings' use_mask
\* and use_force
resolve_enabled_useflags(iuse_list, use_list, use_mask, use_force) ==
    LET name(myiuse) == IF myiuse[1] \in {"+", "-"} THEN Tail(myiuse) ELSE myiuse
    IN  {name(iuse_list[i]) : i \in {j \in 1..Len(iuse_list) :
            /\ (name(iuse_list[j]) \in use_list \/ name(iuse_list[j]) \in use_force)
            /\ name(iuse_list[j]) \notin use_mask}}

-----------------------------------------------------------------------------
(* EntropyCacher (cache.py): the singleton's fields, the threads that call  *)
(* it, the TimeScheduled writer thread and the forked writer processes.     *)
(* entropy.misc.Lifo, entropy.misc.TimeScheduled and entropy.dump are not   *)
(* part of the sources at hand: Lifo is a stack, TimeScheduled a thread     *)
(* that calls its function again and again until killed, dumpobj/loadobj a  *)
(* store of one object per key.                                             *)

None == "None"

CacheKeys == {"k1", "k2"}
CacheData == {"d1", "d2"}

Clients == {"t1"}
Writer == "writer"
Threads == Clients \cup {Writer}

\* _PROC_LIMIT
PROC_LIMIT == 10
\* _OBJS_WRITTEN_AT_ONCE
OBJS_WRITTEN_AT_ONCE == 250

\* init_singleton: cache_writer is FALSE for None
init_singleton ==
    [alive |-> FALSE,
     cache_writer |-> FALSE,
     cache_buffer |-> <<>>,
     stashing_cache |-> [k \in CacheKeys |-> None],
     inside_with_stmt |-> 0,
     proc_pids |-> {},
     enter_context_lock |-> [owner |-> None, count |-> 0]]

\* a thread outside every call
IdleThread ==
    [pc |-> "idle", op |-> "", run_until_empty |-> FALSE, sync |-> FALSE,
     massive_data |-> <<>>, pid |-> 0, depth |-> 0]

CacherInit ==
    /\ cacher = init_singleton
    /\ disk = [k \in CacheKeys |-> None]
    /\ procs = <<>>
    /\ threads = [t \in Threads |-> IdleThread]
    /\ calls = [npush |-> 0, started |-> FALSE,
                latest |-> [k \in CacheKeys |-> None], last |-> <<>>]

\* threading.RLock: acquire succeeds for the owner and when nobody owns it
CanAcquire(lock, t) == lock.owner \in {None, t}
Acquired(lock, t) == [owner |-> t, count |-> lock.count + 1]
Released(lock) ==
    IF lock.count = 1 THEN [owner |-> None, count |-> 0]
    ELSE [owner |-> lock.owner, count |-> lock.count - 1]

\* Lifo.pop() called until the stack is empty or n objects are taken: the
\* objects taken, the last pushed first
lifo_taken(buffer, n) ==
    [i \in 1..(IF n < Len(buffer) THEN n ELSE Len(buffer)) |->
        buffer[Len(buffer) + 1 - i]]

\* what is left on the stack after them
lifo_left(buffer, n) ==
    SubSeq(buffer, 1, IF n < Len(buffer) THEN Len(buffer) - n ELSE 0)

\* __clean_pids: the pids left once those of exited processes are dropped
clean_pids(pids, ps) == {p \in pids : Len(ps[p]) > 0}

\* "del self.__stashing_cache[(key, cache_dir)]" for the keys of massive_data
stash_without(stash, massive_data) ==
    [k \in CacheKeys |->
        IF \E i \in 1..Len(massive_data) : massive_data[i][1] = k
        THEN None ELSE stash[k]]

\* the tail of each __cacher step: the thread's call returns
Returned(t) ==
    /\ threads' = [threads EXCEPT ![t] =
                      [IdleThread EXCEPT !.depth = threads[t].depth]]
    /\ calls' = IF threads[t].op = "" THEN calls
                ELSE [calls EXCEPT !.last = <<threads[t].op>>]

\* __cacher(run_until_empty, sync) is entered by thread t on behalf of op:
\* "if self.__inside_with_stmt != 0: return", noted as a paused call
cacher_entered(t, op, run_until_empty, sync) ==
    IF cacher.inside_with_stmt # 0
    THEN /\ threads' = [threads EXCEPT ![t] =
                           [IdleThread EXCEPT !.depth = threads[t].depth]]
         /\ calls' = IF op = "" THEN calls
                     ELSE [calls EXCEPT !.last = <<op, "paused">>]
    ELSE /\ threads' = [threads EXCEPT ![t] =
                           [IdleThread EXCEPT !.depth = threads[t].depth,
                                              !.pc = "cacher", !.op = op,
                                              !.run_until_empty = run_until_empty,
                                              !.sync = sync]]
         /\ calls' = calls

\* the TimeScheduled thread calls self.__cacher()
WriterTick ==
    /\ cacher.cache_writer
    /\ threads[Writer].pc = "idle"
    /\ cacher_entered(Writer, "", FALSE, FALSE)
    /\ UNCHANGED <<cacher, disk, procs>>
    /\ UNCHANGED spm_vars

\* one turn of "while self.__alive or run_until_empty": under the context
\* lock, up to _OBJS_WRITTEN_AT_ONCE objects are popped, defunct pids are
\* cleaned (the turn waits while more than _PROC_LIMIT are left), and
\* either the stack gave nothing and the call returns, or a process is
\* forked to write the objects
CacherLoop(t) ==
    /\ threads[t].pc = "cacher"
    /\ IF ~(cacher.alive \/ threads[t].run_until_empty)
       THEN /\ Returned(t)
            /\ UNCHANGED <<cacher, disk, procs>>
       ELSE /\ CanAcquire(cacher.enter_context_lock, t)
            /\ Cardinality(clean_pids(cacher.proc_pids, procs)) <= PROC_LIMIT
            /\ IF Len(cacher.cache_buffer) = 0
               THEN /\ cacher' = [cacher EXCEPT
                          !.proc_pids = clean_pids(cacher.proc_pids, procs)]
                    /\ Returned(t)
                    /\ UNCHANGED <<disk, procs>>
               ELSE /\ procs' = Append(procs,
                          lifo_taken(cacher.cache_buffer, OBJS_WRITTEN_AT_ONCE))
                    /\ cacher' = [cacher EXCEPT
                          !.cache_buffer =
                              lifo_left(cacher.cache_buffer, OBJS_WRITTEN_AT_ONCE),
                          !.proc_pids = clean_pids(cacher.proc_pids, procs)
                                            \cup {Len(procs) + 1},
                          !.enter_context_lock =
                              Acquired(cacher.enter_context_lock, t)]
                    /\ threads' = [threads EXCEPT
                          ![t].pc = "forked",
                          ![t].massive_data =
                              lifo_taken(cacher.cache_buffer, OBJS_WRITTEN_AT_ONCE),
                          ![t].pid = Len(procs) + 1]
                    /\ UNCHANGED <<disk, calls>>
    /\ UNCHANGED spm_vars

\* after the fork, in the parent: "if sync: os.waitpid(pid, 0)", then the
\* stash entries of the objects handed to the process are deleted and the
\* context lock is released
CacherForget(t) ==
    /\ threads[t].pc = "forked"
    /\ threads[t].sync => Len(procs[threads[t].pid]) = 0
    /\ cacher' = [cacher EXCEPT
          !.stashing_cache =
              stash_without(cacher.stashing_cache, threads[t].massive_data),
          !.enter_context_lock = Released(cacher.enter_context_lock)]
    /\ threads' = [threads EXCEPT ![t].pc = "cacher",
                                  ![t].massive_data = <<>>,
                                  ![t].pid = 0]
    /\ UNCHANGED <<disk, procs, calls>>
    /\ UNCHANGED spm_vars

\* a forked process: "for (key, cache_dir), data in massive_data: d_o(key,
\* data, dump_dir = cache_dir)", one object a step
ChildWrite(p) ==
    /\ p \in 1..Len(procs)
    /\ Len(procs[p]) > 0
    /\ disk' = [disk EXCEPT ![procs[p][1][1]] = procs[p][1][2]]
    /\ procs' = [procs EXCEPT ![p] = Tail(procs[p])]
    /\ UNCHANGED <<cacher, threads, calls>>
    /\ UNCHANGED spm_vars

\* __enter__, up to a nesting depth
Enter(t, maxDepth) ==
    /\ threads[t].pc = "idle"
    /\ threads[t].depth < maxDepth
    /\ CanAcquire(cacher.enter_context_lock, t)
    /\ cacher' = [cacher EXCEPT
          !.enter_context_lock = Acquired(cacher.enter_context_lock, t),
          !.inside_with_stmt = cacher.inside_with_stmt + 1]
    /\ threads' = [threads EXCEPT ![t].depth = threads[t].depth + 1]
    /\ UNCHANGED <<disk, procs, calls>>
    /\ UNCHANGED spm_vars

\* __exit__
Exit(t) ==
    /\ threads[t].pc = "idle"
    /\ threads[t].depth > 0
    /\ cacher' = [cacher EXCEPT
          !.inside_with_stmt = cacher.inside_with_stmt - 1,
          !.enter_context_lock = Released(cacher.enter_context_lock)]
    /\ threads' = [threads EXCEPT ![t].depth = threads[t].depth - 1]
    /\ UNCHANGED <<disk, procs, calls>>
    /\ UNCHANGED spm_vars

\* start(), called on a cacher that has no writer thread
Start(t) ==
    /\ threads[t].pc = "idle"
    /\ ~cacher.cache_writer
    /\ cacher' = [cacher EXCEPT !.cache_buffer = <<>>,
                                !.cache_writer = TRUE,
                                !.alive = TRUE]
    /\ calls' = [calls EXCEPT !.last = <<"start">>, !.started = TRUE]
    /\ UNCHANGED <<disk, procs, threads>>
    /\ UNCHANGED spm_vars

\* stop(): "self.__alive = False", then the writer thread is killed and
\* joined if there is one, else sync() is called at once
Stop(t) ==
    /\ threads[t].pc = "idle"
    /\ cacher' = [cacher EXCEPT !.alive = FALSE]
    /\ IF cacher.cache_writer
       THEN /\ threads' = [threads EXCEPT ![t].pc = "join", ![t].op = "stop"]
            /\ calls' = [calls EXCEPT !.started = FALSE]
       ELSE cacher_entered(t, "stop", TRUE, TRUE)
    /\ UNCHANGED <<disk, procs>>
    /\ UNCHANGED spm_vars

\* stop(): join() returns once the writer thread is out of its call, then
\* "self.__cache_writer = None; self.sync()"
StopJoined(t) ==
    /\ threads[t].pc = "join"
    /\ threads[Writer].pc = "idle"
    /\ cacher' = [cacher EXCEPT !.cache_writer = FALSE]
    /\ cacher_entered(t, "stop", TRUE, TRUE)
    /\ UNCHANGED <<disk, procs>>
    /\ UNCHANGED spm_vars

\* sync(): self.__cacher(run_until_empty = True, sync = True)
Sync(t) ==
    /\ threads[t].pc = "idle"
    /\ cacher_entered(t, "sync", TRUE, TRUE)
    /\ UNCHANGED <<cacher, disk, procs>>
    /\ UNCHANGED spm_vars

\* push(key, data, async) without its "if not self.__alive: return"
push_Unguarded(c, d, key, data, async) ==
    IF async
    THEN [cacher |-> [c EXCEPT
                        !.cache_buffer = Append(c.cache_buffer, <<key, data>>),
                        !.stashing_cache[key] = data],
          disk |-> d]
    ELSE [cacher |-> c, disk |-> [d EXCEPT ![key] = data]]

\* push(key, data, async): the cacher's fields and the disk after the call
push(c, d, key, data, async) ==
    IF ~c.alive THEN [cacher |-> c, disk |-> d]
    ELSE IF async
    THEN [cacher |-> [c EXCEPT
                        !.cache_buffer = Append(c.cache_buffer, <<key, data>>),
                        !.stashing_cache[key] = data],
          disk |-> d]
    ELSE [cacher |-> c, disk |-> [d EXCEPT ![key] = data]]

\* a call of push by thread t, among at most maxPushes calls
Push(t, keys, datas, asyncs, maxPushes) ==
    /\ threads[t].pc = "idle"
    /\ calls.npush < maxPushes
    /\ \E key \in keys, data \in datas, async \in asyncs :
          /\ cacher' = push(cacher, disk, key, data, async).cacher
          /\ disk' = push(cacher, disk, key, data, async).disk
          /\ calls' = [npush |-> calls.npush + 1,
                       started |-> calls.started,
                       latest |-> IF ~cacher.alive THEN calls.latest
                                  ELSE [calls.latest EXCEPT ![key] =
                                           IF async THEN data ELSE None],
                       last |-> <<"push", key, data, async>>]
    /\ UNCHANGED <<procs, threads>>
    /\ UNCHANGED spm_vars

\* pop(key): the stashed object if there is one, else what loadobj gives
pop(c, d, key) ==
    IF c.stashing_cache[key] # None THEN c.stashing_cache[key] ELSE d[key]

\* a call of pop by thread t
Pop(t, keys) ==
    /\ threads[t].pc = "idle"
    /\ \E key \in keys :
          calls' = [calls EXCEPT !.last = <<"pop", key, pop(cacher, disk, key)>>]
    /\ UNCHANGED <<cacher, disk, procs, threads>>
    /\ UNCHANGED spm_vars

-----------------------------------------------------------------------------
(* Inputs: dependency strings built from tokens joined by single spaces *)

LP == <<"(">>
RP == <<")">>
AtomA == <<"a">>
AtomB == <<"b">>
AtomC == <<"c">>
FlagG == <<"g">>
GuardG == <<"g", "?">>
NotGuardG == <<"!", "g", "?">>

\* " ".join(toks)
RECURSIVE Join(_)
Join(toks) ==
    IF Len(toks) = 0 THEN <<>>
    ELSE IF Len(toks) = 1 THEN toks[1]
    ELSE toks[1] \o <<" ">> \o Join(Tail(toks))

\* every string of at most n tokens of the alphabet
Strings(alphabet, n) ==
    {Str(Join(toks)) : toks \in UNION {[1..k -> alphabet] : k \in 0..n}}

\* the tokens of a string, as the code splits them
Tokens(str) == [i \in 1..Len(strip_empty(Split(str.s))) |->
                    strip_empty(Split(str.s))[i].s]

MaxParseTokens == 5

ParseAlphabet == {LP, RP, AtomA, AtomB}

-----------------------------------------------------------------------------
(* The calls, as steps of the pipeline of calculate_dependencies:           *)
(* paren_reduce, use_reduce, paren_normalize, paren_choose                  *)

NoFields == <<>>

InitWith(strs) ==
    /\ pc = "start"
    /\ mystr \in strs
    /\ uselist = {}
    /\ masklist = {}
    /\ matchall = FALSE
    /\ excludeall = {}
    /\ installed = {}
    /\ parsed = Unset
    /\ reduced = Unset
    /\ normalized = Unset
    /\ normalized2 = Unset
    /\ chosen = Unset
    /\ fields = NoFields
    /\ metadata = Unset
    /\ enabled_flags = {}
    /\ usedeps = Unset
    /\ CacherInit

\* deps = self.paren_reduce(metadata[k])
ParenReduce ==
    /\ pc = "start"
    /\ parsed' = paren_reduce(mystr)
    /\ pc' = "parsed"
    /\ UNCHANGED <<mystr, uselist, masklist, matchall, excludeall, installed,
                   reduced, normalized, normalized2, chosen, fields, metadata,
                   enabled_flags, usedeps>>
    /\ UNCHANGED cacher_vars

\* deps = self.use_reduce(deps, uselist, masklist, matchall, excludeall),
\* the caller's arguments drawn from the given sets
UseReduce(uses, masks, alls, excls) ==
    /\ pc = "parsed"
    /\ parsed.exc = ""
    /\ \E use \in uses, mask \in masks, all \in alls, excl \in excls :
        /\ uselist' = use
        /\ masklist' = mask
        /\ matchall' = all
        /\ excludeall' = excl
        /\ reduced' = use_reduce(parsed.val.c, use, mask, all, excl)
    /\ pc' = "reduced"
    /\ UNCHANGED <<mystr, installed, parsed, normalized, normalized2, chosen,
                   fields, metadata,
                   enabled_flags, usedeps>>
    /\ UNCHANGED cacher_vars

\* deps = self.paren_normalize(deps)
ParenNormalize ==
    /\ pc = "reduced"
    /\ reduced.exc = ""
    /\ normalized' = paren_normalize(reduced.val)
    /\ pc' = "normalized"
    /\ UNCHANGED <<mystr, uselist, masklist, matchall, excludeall, installed,
                   parsed, reduced, normalized2, chosen, fields, metadata,
                   enabled_flags, usedeps>>
    /\ UNCHANGED cacher_vars

\* paren_normalize applied to its own result
ParenNormalizeAgain ==
    /\ pc = "normalized"
    /\ normalized.exc = ""
    /\ normalized2' = paren_normalize(normalized.val)
    /\ pc' = "renormalized"
    /\ UNCHANGED <<mystr, uselist, masklist, matchall, excludeall, installed,
                   parsed, reduced, normalized, chosen, fields, metadata,
                   enabled_flags, usedeps>>
    /\ UNCHANGED cacher_vars

\* deps = self.paren_choose(deps), get_installed_atom answering from inst
ParenChoose(insts) ==
    /\ pc = "renormalized"
    /\ \E inst \in insts :
        /\ installed' = inst
        /\ chosen' = paren_choose(normalized.val, inst)
    /\ pc' = "chosen"
    /\ UNCHANGED <<mystr, uselist, masklist, matchall, excludeall,
                   parsed, reduced, normalized, normalized2, fields, metadata,
                   enabled_flags, usedeps>>
    /\ UNCHANGED cacher_vars

\* deps = self.usedeps_reduce(deps, enabled_use), the enabled flags drawn
\* from the given sets
UsedepsReduce(enableds) ==
    /\ pc = "chosen"
    /\ chosen.exc = ""
    /\ \E enabled \in enableds :
        /\ enabled_flags' = enabled
        /\ usedeps' = usedeps_reduce(chosen.val.c, enabled)
    /\ pc' = "usedeps"
    /\ UNCHANGED <<mystr, uselist, masklist, matchall, excludeall, installed,
                   parsed, reduced, normalized, normalized2, chosen, fields,
                   metadata>>
    /\ UNCHANGED cacher_vars

\* deps = self.paren_license_choose(deps): list(newlist) in any order
ParenLicenseChoose ==
    /\ pc = "normalized"
    /\ normalized.exc = ""
    /\ \E license \in Orderings(paren_license_choose(normalized.val.c)) :
        chosen' = Ok(Lst(license))
    /\ pc' = "licensed"
    /\ UNCHANGED <<mystr, uselist, masklist, matchall, excludeall, installed,
                   parsed, reduced, normalized, normalized2, fields, metadata,
                   enabled_flags, usedeps>>
    /\ UNCHANGED cacher_vars

-----------------------------------------------------------------------------
(* SpecParse: strings of parentheses and atoms *)

InitParse == InitWith(Strings(ParseAlphabet, MaxParseTokens))

NextParse ==
    \/ ParenReduce
    \/ UseReduce({{}}, {{}}, {FALSE}, {{}})
    \/ ParenNormalize
    \/ ParenNormalizeAgain
    \/ ParenChoose({{}, {AtomA}})

SpecParse == InitParse /\ [][NextParse]_vars

\* the number of "(" of s left open when s ends, a ")" closing the nearest
\* open "(" and a ")" with none open closing nothing
RECURSIVE OpenParens(_, _)
OpenParens(s, depth) ==
    IF Len(s) = 0 THEN depth
    ELSE IF s[1] = "(" THEN OpenParens(Tail(s), depth + 1)
    ELSE IF s[1] = ")" /\ depth > 0 THEN OpenParens(Tail(s), depth - 1)
    ELSE OpenParens(Tail(s), depth)

HasUnmatchedLeftParen(str) == OpenParens(str.s, 0) > 0

\* TRUE when every ")" of s closes a "(" opened before it
RECURSIVE NoUnmatchedRightParen(_, _)
NoUnmatchedRightParen(s, depth) ==
    IF Len(s) = 0 THEN TRUE
    ELSE IF s[1] = "(" THEN NoUnmatchedRightParen(Tail(s), depth + 1)
    ELSE IF s[1] = ")"
    THEN depth > 0 /\ NoUnmatchedRightParen(Tail(s), depth - 1)
    ELSE NoUnmatchedRightParen(Tail(s), depth)

Balanced(str) ==
    NoUnmatchedRightParen(str.s, 0) /\ ~HasUnmatchedLeftParen(str)

\* C1: paren_reduce raises InvalidDependString for every input holding an
\* unmatched "(": it returns no tree and raises no other exception type.
\* Stated on the inputs whose only malformation is the unmatched "(" (every
\* ")" closes a "("), the case the claim's examples are about.
C1_UnmatchedParenRaises ==
    (pc # "start" /\ HasUnmatchedLeftParen(mystr)
        /\ NoUnmatchedRightParen(mystr.s, 0))
        => parsed.exc = InvalidDependString

\* the tokens of a tree written back: each list as "(", its elements, ")"
RECURSIVE Unparse(_)
Unparse(c) ==
    IF Len(c) = 0 THEN <<>>
    ELSE (IF IsList(c[1]) THEN <<LP>> \o Unparse(c[1].c) \o <<RP>>
          ELSE <<c[1].s>>) \o Unparse(Tail(c))

\* C21: for every balanced input, paren_reduce returns a tree that, written
\* back, gives the input's tokens in the same order with the same grouping:
\* each parenthesized group is one nested list at the place of its "(",
\* holding what stands between that "(" and its matching ")".
C21_ParseRoundTrips ==
    (pc # "start" /\ Balanced(mystr))
        => /\ parsed.exc = ""
           /\ IsList(parsed.val)
           /\ Unparse(parsed.val.c) = Tokens(mystr)

\* "a ( b a )" is parsed to [a, [b, a]]
C21_Witness ==
    /\ pc # "start"
    /\ mystr = Str(Join(<<AtomA, LP, AtomB, AtomA, RP>>))
    /\ parsed = Ok(Lst(<<Str(AtomA), Lst(<<Str(AtomB), Str(AtomA)>>)>>))

-----------------------------------------------------------------------------
(* SpecReduce: strings of guards, "||" markers, parentheses and an atom,    *)
(* reduced under every uselist, masklist, matchall and excludeall over the  *)
(* flag g                                                                   *)

MaxReduceTokens == 5

ReduceAlphabet == {GuardG, NotGuardG, OrTok, LP, RP, AtomA}

InitReduce == InitWith(Strings(ReduceAlphabet, MaxReduceTokens))

NextReduce ==
    \/ ParenReduce
    \/ UseReduce(SUBSET {FlagG}, SUBSET {FlagG}, BOOLEAN, SUBSET {FlagG})
    \/ ParenNormalize
    \/ ParenNormalizeAgain
    \/ ParenChoose({{}, {AtomA}})

SpecReduce == InitReduce /\ [][NextReduce]_vars

IsGuard(v) == IsStr(v) /\ EndsWithQ(v.s)

UseReduceCalled == pc \notin {"start", "parsed"}

\* a group of the tree, at any depth, ends in a guard token: the guard (or
\* the chain of guards it ends) has no target
RECURSIVE HasDanglingGuard(_)
HasDanglingGuard(d) ==
    \/ (Len(d) > 0 /\ IsGuard(d[Len(d)]))
    \/ \E i \in 1..Len(d) : IsList(d[i]) /\ HasDanglingGuard(d[i].c)

\* C2: a guard token, or a chain of guard tokens, with no following target
\* makes paren_reduce then use_reduce raise InvalidDependString, at the top
\* level and inside any nested group, for every uselist and masklist.
C2_DanglingGuardRaises ==
    (UseReduceCalled /\ HasDanglingGuard(parsed.val.c))
        => reduced.exc = InvalidDependString

\* the group at index i of d is handed to use_reduce: it is no target of a
\* chain of guards, or every guard of the chain before it matches
GroupIsReduced(d, i, use, mask, all, excl) ==
    LET first == CHOOSE j \in 1..i :
                    /\ \A m \in j..(i - 1) : IsGuard(d[m])
                    /\ (j = 1 \/ ~IsGuard(d[j - 1]))
    IN  first = i
        \/ FlagsMatch(SubSeq(d, first, i - 1), 1, TRUE, use, mask, all, excl)
              = "match"

\* a "||" that is the last element of its group, or is followed by something
\* that is no group, in the top-level group or in a nested group that
\* use_reduce reduces
RECURSIVE HasDanglingOr(_, _, _, _, _)
HasDanglingOr(d, use, mask, all, excl) ==
    \/ \E x \in 1..Len(d) :
          /\ d[x] = Str(OrTok)
          /\ (x = Len(d) \/ ~IsList(d[x + 1]))
    \/ \E i \in 1..Len(d) :
          /\ IsList(d[i])
          /\ GroupIsReduced(d, i, use, mask, all, excl)
          /\ HasDanglingOr(d[i].c, use, mask, all, excl)

\* C3: a "||" marker that is the last element of its group, or whose next
\* element is no parenthesized group, makes paren_reduce then use_reduce
\* raise InvalidDependString, at the top level and inside any nested group
\* that is reduced.
C3_DanglingOrRaises ==
    (UseReduceCalled
        /\ HasDanglingOr(parsed.val.c, uselist, masklist, matchall, excludeall))
        => reduced.exc = InvalidDependString

\* the "||" of a nested group whose guard matches has no group after it,
\* and use_reduce raised
C3_Witness ==
    /\ UseReduceCalled
    /\ reduced.exc = InvalidDependString
    /\ Balanced(mystr)
    /\ \E i \in 2..Len(parsed.val.c) :
          /\ IsList(parsed.val.c[i])
          /\ IsGuard(parsed.val.c[i - 1])
          /\ GroupIsReduced(parsed.val.c, i, uselist, masklist, matchall,
                            excludeall)
          /\ HasDanglingOr(parsed.val.c[i].c, uselist, masklist, matchall,
                           excludeall)
    /\ ~MissingAtomList(parsed.val.c)

\* index i of d holds a guard that is a chain of its own: the element
\* before it is no guard and the element after it, its target, is none
SingleGuardAt(d, i) ==
    /\ i < Len(d)
    /\ IsGuard(d[i])
    /\ ~IsGuard(d[i + 1])
    /\ (i = 1 \/ ~IsGuard(d[i - 1]))

\* the indices of the top-level single guards "flag?" of d
PositiveGuards(d) ==
    {i \in 1..Len(d) :
        SingleGuardAt(d, i) /\ Len(d[i].s) > 1 /\ d[i].s[1] # "!"}

\* the indices of the top-level single guards "!flag?" of d
NegatedGuards(d) ==
    {i \in 1..Len(d) :
        SingleGuardAt(d, i) /\ Len(d[i].s) > 2 /\ d[i].s[1] = "!"}

PositiveFlag(g) == SubSeq(g.s, 1, Len(g.s) - 1)
NegatedFlag(g) == SubSeq(g.s, 2, Len(g.s) - 1)

\* d with the guard at index i removed, and its target too unless keep
WithoutGuard(d, i, keep) ==
    SubSeq(d, 1, i - 1) \o (IF keep THEN <<d[i + 1]>> ELSE <<>>)
        \o SubSeq(d, i + 2, Len(d))

\* the guard at index i of the parsed tree resolved to holds: use_reduce
\* returned what it returns for the tree with the bare target in place of
\* guard and target (holds), or with both removed (does not hold)
ResolvesTo(i, holds) ==
    LET r == use_reduce(WithoutGuard(parsed.val.c, i, holds),
                        uselist, masklist, matchall, excludeall)
    IN  r.exc = "" /\ r.val = reduced.val

\* C9 as claimed: with matchall true every negated guard "!flag?" does not
\* hold and its target is pruned, for every uselist, masklist and excludeall.
C9_NegatedGuardFailsUnderMatchall ==
    (UseReduceCalled /\ reduced.exc = "" /\ matchall)
        => \A i \in NegatedGuards(parsed.val.c) : ResolvesTo(i, FALSE)

\* C9 as the code has it: with matchall true a negated guard "!flag?" holds,
\* and its target is included, exactly when flag is not in excludeall,
\* whatever uselist and masklist are.
C9_NegatedGuardUnderMatchall ==
    (UseReduceCalled /\ reduced.exc = "" /\ matchall)
        => \A i \in NegatedGuards(parsed.val.c) :
              ResolvesTo(i, NegatedFlag(parsed.val.c[i]) \notin excludeall)

\* matchall is true, a negated guard holds and its target, an atom or a
\* non-empty group, is part of the result
C9_Witness ==
    /\ UseReduceCalled /\ reduced.exc = "" /\ matchall
    /\ uselist # {} /\ masklist # {}
    /\ \E i \in NegatedGuards(parsed.val.c) :
          /\ NegatedFlag(parsed.val.c[i]) \notin excludeall
          /\ Truthy(parsed.val.c[i + 1])
          /\ ResolvesTo(i, TRUE)
          /\ ~ResolvesTo(i, FALSE)

C11_PositiveGuardFailsWhenExcluded ==
    (UseReduceCalled /\ reduced.exc = "")
        => \A i \in PositiveGuards(parsed.val.c) :
              PositiveFlag(parsed.val.c[i]) \in excludeall
                  => ResolvesTo(i, FALSE)

\* C11 as the code has it: excludeall fails the negated guard "!flag?",
\* whatever uselist and matchall are, and leaves the unnegated guard "flag?"
\* alone: with flag in excludeall it still holds iff flag is not in masklist
\* and (matchall is true or flag is in uselist).
C11_ExcludeallFailsNegatedGuard ==
    (UseReduceCalled /\ reduced.exc = "")
        => /\ \A i \in NegatedGuards(parsed.val.c) :
                NegatedFlag(parsed.val.c[i]) \in excludeall
                    => ResolvesTo(i, FALSE)
           /\ \A i \in PositiveGuards(parsed.val.c) :
                LET flag == PositiveFlag(parsed.val.c[i])
                IN  flag \in excludeall
                        => ResolvesTo(i, flag \notin masklist
                                            /\ (matchall \/ flag \in uselist))

\* a flag of excludeall guards a target unnegated, and the target is part of
\* the result
C11_Witness ==
    /\ UseReduceCalled /\ reduced.exc = ""
    /\ \E i \in PositiveGuards(parsed.val.c) :
          /\ PositiveFlag(parsed.val.c[i]) \in excludeall
          /\ Truthy(parsed.val.c[i + 1])
          /\ ResolvesTo(i, TRUE)
          /\ ~ResolvesTo(i, FALSE)

\* the top-level chains of d: <<i, n>> when d[i], ..., d[i + n - 1] are
\* n >= 2 guards, no guard stands before them and d[i + n] is their target
GuardChains(d) ==
    {c \in (1..Len(d)) \X (2..Len(d)) :
        /\ c[1] + c[2] <= Len(d)
        /\ \A m \in c[1]..(c[1] + c[2] - 1) : IsGuard(d[m])
        /\ ~IsGuard(d[c[1] + c[2]])
        /\ (c[1] = 1 \/ ~IsGuard(d[c[1] - 1]))}

\* the guard g holds: "flag?" when flag is not masked and is enabled or
\* matchall is set, "!flag?" when flag is not excluded and is not enabled or
\* matchall is set
GuardHolds(g, use, mask, all, excl) ==
    IF g.s[1] = "!"
    THEN NegatedFlag(g) \notin excl /\ (all \/ NegatedFlag(g) \notin use)
    ELSE PositiveFlag(g) \notin mask /\ (all \/ PositiveFlag(g) \in use)

\* d with the n guards from index i removed, and their target too unless keep
WithoutChain(d, i, n, keep) ==
    SubSeq(d, 1, i - 1) \o (IF keep THEN <<d[i + n]>> ELSE <<>>)
        \o SubSeq(d, i + n + 1, Len(d))

\* use_reduce's outcome for the parsed tree with the chain <<i, n>> replaced
\* by its bare target (keep) or by nothing
ReducedWithoutChain(i, n, keep) ==
    use_reduce(WithoutChain(parsed.val.c, i, n, keep),
               uselist, masklist, matchall, excludeall)

\* C12: a chain of guards "g1? g2? ... target" is accepted by use_reduce
\* whenever the tree with the bare target in its place is (and no "||" of
\* the tree lacks its group), the deprecation warning is sent to
\* updateProgress, and the target is included iff every guard of the chain
\* holds.
C12_GuardChainIsConjunction ==
    (UseReduceCalled /\ ~MissingAtomList(parsed.val.c))
        => \A c \in GuardChains(parsed.val.c) :
              LET every == \A m \in c[1]..(c[1] + c[2] - 1) :
                              GuardHolds(parsed.val.c[m], uselist, masklist,
                                         matchall, excludeall)
              IN  ReducedWithoutChain(c[1], c[2], TRUE).exc = ""
                    => /\ reduced.exc = ""
                       /\ "NestedUse" \in reduced.warn
                       /\ reduced.val = ReducedWithoutChain(c[1], c[2], every).val

\* a chain starts with a masked flag, the guards after it hold, and the
\* target, an atom or a non-empty group, is pruned with a warning
C12_Witness ==
    /\ UseReduceCalled /\ reduced.exc = ""
    /\ "NestedUse" \in reduced.warn
    /\ \E c \in GuardChains(parsed.val.c) :
          /\ parsed.val.c[c[1]].s[1] # "!"
          /\ PositiveFlag(parsed.val.c[c[1]]) \in masklist
          /\ \A m \in (c[1] + 1)..(c[1] + c[2] - 1) :
                GuardHolds(parsed.val.c[m], uselist, masklist, matchall,
                           excludeall)
          /\ Truthy(parsed.val.c[c[1] + c[2]])
          /\ reduced.val = ReducedWithoutChain(c[1], c[2], FALSE).val
          /\ reduced.val # ReducedWithoutChain(c[1], c[2], TRUE).val

\* a guard token stands in the tree, at any depth
RECURSIVE HasGuardToken(_)
HasGuardToken(c) ==
    \E i \in 1..Len(c) :
        IF IsList(c[i]) THEN HasGuardToken(c[i].c) ELSE IsGuard(c[i])

\* C22: the tree use_reduce returns holds no guard token (a string ending
\* in "?") at any depth, whatever the uselist, masklist, matchall and
\* excludeall: no conditional reaches paren_normalize or paren_choose.
C22_NoGuardInReducedTree ==
    (UseReduceCalled /\ reduced.exc = "")
        => ~HasGuardToken(reduced.val.c)

\* a chain of two guards before a group, both holding: the group is kept
\* and neither guard is
C22_Witness ==
    /\ UseReduceCalled /\ reduced.exc = ""
    /\ mystr = Str(Join(<<GuardG, GuardG, LP, AtomA, RP>>))
    /\ HasGuardToken(parsed.val.c)
    /\ reduced.val = Lst(<<Lst(<<Str(AtomA)>>)>>)

\* the top-level places of d where one guard stands right before a "||"
\* and its group
GuardedDisjunctions(d) ==
    {i \in 1..Len(d) :
        /\ i + 2 <= Len(d)
        /\ IsGuard(d[i])
        /\ (i = 1 \/ ~IsGuard(d[i - 1]))
        /\ d[i + 1] = Str(OrTok)
        /\ IsList(d[i + 2])}

\* C27: a guard right before a "||" guards the whole disjunction: when the
\* guard does not hold, use_reduce gives what it gives for the tree without
\* the guard, the marker and the group, and when the input is nothing but
\* the guarded disjunction the result of the pipeline is empty.
C27_GuardBeforeOrGuardsDisjunction ==
    (UseReduceCalled /\ reduced.exc = "")
        => \A i \in GuardedDisjunctions(parsed.val.c) :
              ~GuardHolds(parsed.val.c[i], uselist, masklist, matchall, excludeall)
                  => /\ reduced.val =
                          use_reduce(SubSeq(parsed.val.c, 1, i - 1)
                                        \o SubSeq(parsed.val.c, i + 3,
                                                  Len(parsed.val.c)),
                                     uselist, masklist, matchall, excludeall).val
                     /\ (pc = "chosen" /\ chosen.exc = ""
                            /\ Len(parsed.val.c) = 3)
                          => chosen.val.c = <<>>

-----------------------------------------------------------------------------
(* SpecCond: strings of atoms, the guard g? and parentheses, without "||",  *)
(* taken through the whole pipeline as calculate_dependencies calls it      *)
(* (uselist only; no masklist, matchall or excludeall)                      *)

MaxCondTokens == 6

CondAlphabet == {AtomA, AtomC, GuardG, LP, RP}

InitCond == InitWith(Strings(CondAlphabet, MaxCondTokens))

NextCond ==
    \/ ParenReduce
    \/ UseReduce(SUBSET {FlagG}, {{}}, {FALSE}, {{}})
    \/ ParenNormalize
    \/ ParenNormalizeAgain
    \/ ParenChoose(SUBSET {AtomA, AtomC})

SpecCond == InitCond /\ [][NextCond]_vars

\* balanced parentheses, no "||", and every guard directly before a "("
GuardedGroupsOnly(str) ==
    LET toks == Tokens(str)
    IN  /\ Balanced(str)
        /\ \A i \in 1..Len(toks) :
              /\ toks[i] # OrTok
              /\ EndsWithQ(toks[i]) =>
                    (i < Len(toks) /\ toks[i + 1] = LP /\ Len(toks[i]) > 1
                     /\ toks[i][1] # "!")

\* the atoms of toks that stand in no group whose guard, or the guard of a
\* group around it, names a flag outside use; in their order in toks.
\* open holds, innermost group last, whether each group around the current
\* token is kept; next whether the group opened next is
RECURSIVE KeptAtoms(_, _, _, _)
KeptAtoms(toks, open, next, use) ==
    IF Len(toks) = 0 THEN <<>>
    ELSE
    LET tok == Head(toks)
        kept == open[Len(open)]
    IN  IF tok = LP
        THEN KeptAtoms(Tail(toks), Append(open, kept /\ next), TRUE, use)
        ELSE IF tok = RP
        THEN KeptAtoms(Tail(toks), SubSeq(open, 1, Len(open) - 1), TRUE, use)
        ELSE IF EndsWithQ(tok)
        THEN KeptAtoms(Tail(toks), open,
                       SubSeq(tok, 1, Len(tok) - 1) \in use, use)
        ELSE (IF kept THEN <<Str(tok)>> ELSE <<>>)
                \o KeptAtoms(Tail(toks), open, TRUE, use)

\* C5: for an input without disjunctions, paren_reduce, use_reduce (matchall
\* false, empty masklist), paren_normalize and paren_choose raise nothing and
\* yield the unguarded atoms and the atoms of the groups whose guard flag? has
\* flag in uselist, at their original positions and in their original order,
\* whatever get_installed_atom answers.
C5_GuardedGroupKeptIffEnabled ==
    GuardedGroupsOnly(mystr) =>
        /\ parsed.exc \in {"", "unset"}
        /\ reduced.exc \in {"", "unset"}
        /\ normalized.exc \in {"", "unset"}
        /\ pc = "chosen" =>
              chosen = Ok(Lst(KeptAtoms(Tokens(mystr), <<TRUE>>, TRUE, uselist)))

\* a guarded group of two atoms after an unguarded atom was kept, flag
\* enabled, nothing installed
C5_Witness ==
    /\ pc = "chosen"
    /\ GuardedGroupsOnly(mystr)
    /\ Len(Tokens(mystr)) = 6
    /\ Tokens(mystr)[1] \in {AtomA, AtomC}
    /\ Tokens(mystr)[2] = GuardG
    /\ Tokens(mystr)[4] \in {AtomA, AtomC}
    /\ Tokens(mystr)[5] \in {AtomA, AtomC} \ {Tokens(mystr)[4]}
    /\ FlagG \in uselist
    /\ installed = {}
    /\ Len(chosen.val.c) = 3

-----------------------------------------------------------------------------
(* SpecSelect: one disjunction, optionally followed by the atom c.  Its     *)
(* branches are atoms, AND-groups of two atoms, nested disjunctions of such *)
(* branches, and AND-groups holding an atom and a nested disjunction.       *)

MaxBranches == 2

Leaves == {AtomA, AtomB}

SimpleBranches == {<<l>> : l \in Leaves} \cup {<<LP, l[1], l[2], RP>> :
                        l \in {p \in Leaves \X Leaves : p[1] # p[2]}}

\* || ( b1 ... bn ) for every choice of 1..n branches
Disjunctions(branches, n) ==
    {<<OrTok, LP>> \o Concat(bs) \o <<RP>> :
        bs \in UNION {[1..k -> branches] : k \in 1..n}}

\* ( l || ( l1 l2 ) )
AndWithOr ==
    {<<LP, l, OrTok, LP, p[1], p[2], RP, RP>> :
        l \in Leaves, p \in Leaves \X Leaves}

Branches == SimpleBranches \cup Disjunctions(SimpleBranches, 2) \cup AndWithOr

SelectStrings ==
    {Str(Join(d \o tail)) :
        d \in Disjunctions(Branches, MaxBranches), tail \in {<<>>, <<AtomC>>}}

InitSelect == InitWith(SelectStrings)

NextSelect ==
    \/ ParenReduce
    \/ UseReduce({{}}, {{}}, {FALSE}, {{}})
    \/ ParenNormalize
    \/ ParenNormalizeAgain
    \/ ParenChoose(SUBSET Leaves)

SpecSelect == InitSelect /\ [][NextSelect]_vars

\* The meaning of a group d read from index i on, its units being atoms,
\* groups (all of their units required) and "||" followed by a group (one of
\* its units required), under the oracle inst.
RECURSIVE AndSatisfied(_, _, _)
RECURSIVE OrSatisfied(_, _, _)
RECURSIVE AndAtoms(_, _, _)
RECURSIVE FirstSatisfiedAtoms(_, _, _)

UnitLen(d, i) == IF d[i] = Str(OrTok) THEN 2 ELSE 1

UnitSatisfied(d, i, inst) ==
    IF d[i] = Str(OrTok) THEN OrSatisfied(d[i + 1].c, 1, inst)
    ELSE IF IsList(d[i]) THEN AndSatisfied(d[i].c, 1, inst)
    ELSE d[i].s \in inst

\* the atoms a satisfied unit stands for
UnitAtoms(d, i, inst) ==
    IF d[i] = Str(OrTok) THEN FirstSatisfiedAtoms(d[i + 1].c, 1, inst)
    ELSE IF IsList(d[i]) THEN AndAtoms(d[i].c, 1, inst)
    ELSE <<d[i]>>

AndSatisfied(d, i, inst) ==
    i > Len(d)
    \/ (UnitSatisfied(d, i, inst) /\ AndSatisfied(d, i + UnitLen(d, i), inst))

OrSatisfied(d, i, inst) ==
    i <= Len(d)
    /\ (UnitSatisfied(d, i, inst) \/ OrSatisfied(d, i + UnitLen(d, i), inst))

AndAtoms(d, i, inst) ==
    IF i > Len(d) THEN <<>>
    ELSE UnitAtoms(d, i, inst) \o AndAtoms(d, i + UnitLen(d, i), inst)

\* all atoms of the first satisfied branch
FirstSatisfiedAtoms(d, i, inst) ==
    IF i > Len(d) THEN <<>>
    ELSE IF UnitSatisfied(d, i, inst) THEN UnitAtoms(d, i, inst)
    ELSE FirstSatisfiedAtoms(d, i + UnitLen(d, i), inst)

\* the branches of the input's disjunction and what follows the disjunction
TopBranches == parsed.val.c[2].c
AfterDisjunction == SubSeq(parsed.val.c, 3, Len(parsed.val.c))

\* C6: paren_choose returns, for the disjunction, all atoms of its first
\* fully satisfied branch (an atom, an AND-group, or a branch reached through
\* a nested disjunction), followed by the atoms outside the disjunction.
C6_FirstSatisfiedBranch ==
    (pc = "chosen" /\ OrSatisfied(TopBranches, 1, installed))
        => chosen = Ok(Lst(FirstSatisfiedAtoms(TopBranches, 1, installed)
                             \o AfterDisjunction))

\* C7: when no branch of the disjunction is satisfied, paren_choose emits in
\* its place the string form of the first listed branch only, and never
\* nothing.
C7_FirstBranchFallback ==
    (pc = "chosen" /\ ~OrSatisfied(TopBranches, 1, installed))
        => chosen = Ok(Lst(<<Str(PyStr(TopBranches[1]))>> \o AfterDisjunction))

\* C8: paren_normalize is idempotent on the trees use_reduce returns.
C8_NormalizeIdempotent ==
    pc \in {"renormalized", "chosen"} => normalized2 = normalized

\* the normalized tree is "||", the list of branches, then plain elements
DisjunctionKept ==
    /\ normalized.exc = ""
    /\ Len(normalized.val.c) >= 2
    /\ normalized.val.c[1] = Str(OrTok)
    /\ IsList(normalized.val.c[2])

NormalizedBranches == normalized.val.c[2].c
AfterNormalized == SubSeq(normalized.val.c, 3, Len(normalized.val.c))

\* branch i is an AND-group of atoms, not the list of a nested "||"
IsAndGroupOfAtoms(nb, i) ==
    /\ IsList(nb[i])
    /\ (i = 1 \/ nb[i - 1] # Str(OrTok))
    /\ \A j \in 1..Len(nb[i].c) : IsStr(nb[i].c[j]) /\ nb[i].c[j] # Str(OrTok)

\* the branches without branch i
WithoutBranch(nb, i) == SubSeq(nb, 1, i - 1) \o SubSeq(nb, i + 1, Len(nb))

\* what paren_choose emits for a disjunction whose dep_or_select gave r
EmittedFor(r, nb) ==
    IF Len(r.val.c) > 0 THEN r.val.c ELSE <<Str(PyStr(Lst(nb)))>>

\* C23: an AND-group that is a branch of a disjunction is selected only if
\* every atom of it is installed: when one of its atoms is not, the result
\* is the one the other branches give, as if the group were not listed; and
\* whenever the group's atoms are the result, all of them are installed.
C23_AndBranchNeedsEveryAtom ==
    (pc = "chosen" /\ DisjunctionKept)
        => \A i \in 1..Len(NormalizedBranches) :
              IsAndGroupOfAtoms(NormalizedBranches, i)
                  => /\ (\E j \in 1..Len(NormalizedBranches[i].c) :
                            NormalizedBranches[i].c[j].s \notin installed)
                        => chosen.val.c =
                              EmittedFor(dep_or_select(
                                  Lst(WithoutBranch(NormalizedBranches, i)),
                                  installed), NormalizedBranches)
                              \o AfterNormalized
                     /\ chosen.val.c = NormalizedBranches[i].c \o AfterNormalized
                        => \A j \in 1..Len(NormalizedBranches[i].c) :
                              NormalizedBranches[i].c[j].s \in installed

\* "|| ( ( a b ) b )" with only b installed: the group is rejected and the
\* next branch, b, is the result
C23_Witness ==
    /\ pc = "chosen"
    /\ mystr = Str(Join(<<OrTok, LP, LP, AtomA, AtomB, RP, AtomB, RP>>))
    /\ installed = {AtomB}
    /\ IsAndGroupOfAtoms(NormalizedBranches, 1)
    /\ chosen = Ok(Lst(<<Str(AtomB)>>))

\* branch i is an AND-group that holds a nested disjunction none of whose
\* branches is satisfied
HoldsUnsatisfiedDisjunction(nb, i, inst) ==
    /\ IsList(nb[i])
    /\ (i = 1 \/ nb[i - 1] # Str(OrTok))
    /\ \E j \in 1..Len(nb[i].c) :
          /\ nb[i].c[j] = Str(OrTok)
          /\ j < Len(nb[i].c)
          /\ IsList(nb[i].c[j + 1])
          /\ ~OrSatisfied(nb[i].c[j + 1].c, 1, inst)

\* C28: an AND-group branch that holds a nested disjunction is selected only
\* if the nested disjunction has a satisfied branch: when it has none, the
\* result is the one the other branches give, as if the group were not
\* listed.
C28_NestedDisjunctionNeeded ==
    (pc = "chosen" /\ DisjunctionKept)
        => \A i \in 1..Len(NormalizedBranches) :
              HoldsUnsatisfiedDisjunction(NormalizedBranches, i, installed)
                  => chosen.val.c =
                        EmittedFor(dep_or_select(
                            Lst(WithoutBranch(NormalizedBranches, i)),
                            installed), NormalizedBranches)
                        \o AfterNormalized

-----------------------------------------------------------------------------
(* SpecPruned: a disjunction whose branches are all guarded groups, between *)
(* optional atoms, taken through the pipeline as calculate_dependencies     *)
(* calls it                                                                 *)

MaxGuarded == 2

GuardedBranches ==
    {<<GuardG, LP, AtomA, RP>>,
     <<GuardG, LP, AtomA, AtomB, RP>>,
     <<NotGuardG, LP, AtomB, RP>>}

PrunedStrings ==
    {Str(Join(head \o d \o tail)) :
        head \in {<<>>, <<AtomC>>},
        d \in Disjunctions(GuardedBranches, MaxGuarded),
        tail \in {<<>>, <<AtomC>>}}

InitPruned == InitWith(PrunedStrings)

NextPruned ==
    \/ ParenReduce
    \/ UseReduce(SUBSET {FlagG}, {{}}, {FALSE}, {{}})
    \/ ParenNormalize
    \/ ParenNormalizeAgain
    \/ ParenChoose(SUBSET {AtomA, AtomB})

SpecPruned == InitPruned /\ [][NextPruned]_vars

\* no guard of the string holds: use_reduce prunes every branch of the
\* disjunction
AllBranchesPruned ==
    \A i \in 1..Len(Tokens(mystr)) :
        EndsWithQ(Tokens(mystr)[i])
            => ~GuardHolds(Str(Tokens(mystr)[i]), uselist, masklist, matchall,
                           excludeall)

\* the atoms before and after the disjunction
AtomsBefore ==
    IF Tokens(mystr)[1] = OrTok THEN <<>> ELSE <<Str(Tokens(mystr)[1])>>

AtomsAfter ==
    IF Tokens(mystr)[Len(Tokens(mystr))] = RP THEN <<>>
    ELSE <<Str(Tokens(mystr)[Len(Tokens(mystr))])>>

-----------------------------------------------------------------------------
(* SpecUsedeps: one or two atoms with a bracket of clauses over the flags   *)
(* g and h, taken through the pipeline of a *DEPEND field up to             *)
(* usedeps_reduce                                                           *)

MaxClauses == 2

AtomP == <<"p">>
FlagH == <<"h">>

ClauseKinds == {"flag=", "!flag=", "flag?", "!flag?", "flag", "-flag", "!flag"}

\* the clause of the given kind for a flag
Clause(kind, flag) ==
    CASE kind = "flag="  -> flag \o <<"=">>
      [] kind = "!flag=" -> <<"!">> \o flag \o <<"=">>
      [] kind = "flag?"  -> flag \o <<"?">>
      [] kind = "!flag?" -> <<"!">> \o flag \o <<"?">>
      [] kind = "flag"   -> flag
      [] kind = "-flag"  -> <<"-">> \o flag
      [] kind = "!flag"  -> <<"!">> \o flag

\* the sequences of at most n <<kind, flag>> pairs
ClauseLists(n) ==
    UNION {[1..k -> ClauseKinds \X {FlagG, FlagH}] : k \in 0..n}

\* name[clause,clause,...], or the bare name when there is no clause
WithBracket(name, clauses) ==
    IF Len(clauses) = 0 THEN name
    ELSE name \o <<"[">> \o JoinComma(clauses) \o <<"]">>

AtomOf(cl) == WithBracket(AtomP, [i \in 1..Len(cl) |-> Clause(cl[i][1], cl[i][2])])

UsedepStrings ==
    {Str(Join(<<AtomOf(cl)>> \o tail)) :
        cl \in ClauseLists(MaxClauses),
        tail \in {<<>>, <<AtomA>>, <<AtomOf(<<<<"flag?", FlagG>>>>)>>}}

InitUsedeps == InitWith(UsedepStrings)

NextUsedeps ==
    \/ ParenReduce
    \/ UseReduce({{}}, {{}}, {FALSE}, {{}})
    \/ ParenNormalize
    \/ ParenNormalizeAgain
    \/ ParenChoose({{}})
    \/ UsedepsReduce(SUBSET {FlagG, FlagH})

SpecUsedeps == InitUsedeps /\ [][NextUsedeps]_vars

\* the markers a clause is rewritten to, as the contract states them
Markers(kind, flag, enabled) ==
    CASE kind = "flag="  -> IF flag \in enabled THEN <<flag>> ELSE <<<<"-">> \o flag>>
      [] kind = "!flag=" -> IF flag \in enabled THEN <<<<"-">> \o flag>> ELSE <<flag>>
      [] kind = "flag?"  -> IF flag \in enabled THEN <<flag>> ELSE <<>>
      [] kind = "!flag?" -> IF flag \notin enabled THEN <<<<"-">> \o flag>> ELSE <<>>
      [] kind = "flag"   -> <<flag>>
      [] kind = "-flag"  -> <<<<"-">> \o flag>>
      [] kind = "!flag"  -> <<>>

\* the clauses of a generated atom p[clause,...], and the <<kind, flag>>
\* pair a clause was built from
ClausesIn(atom) ==
    IF Len(atom) = Len(AtomP) THEN <<>>
    ELSE SplitComma(SubSeq(atom, Len(AtomP) + 2, Len(atom) - 1))

KindOf(clause) ==
    CHOOSE kf \in ClauseKinds \X {FlagG, FlagH} : Clause(kf[1], kf[2]) = clause

\* the atom as the contract rewrites it
Rewritten(atom, enabled) ==
    WithBracket(AtomP,
        Concat([i \in 1..Len(ClausesIn(atom)) |->
                  Markers(KindOf(ClausesIn(atom)[i])[1],
                          KindOf(ClausesIn(atom)[i])[2], enabled)]))

HasBareNegation(atom) ==
    \E i \in 1..Len(ClausesIn(atom)) : KindOf(ClausesIn(atom)[i])[1] = "!flag"

\* C14: usedeps_reduce rewrites every clause of an atom's bracket against
\* the enabled flags ("flag=", "!flag=", "flag?", "!flag?" as stated, a bare
\* flag kept), joins the surviving markers with commas in clause order in
\* one bracket, and omits the bracket when none survives; an atom without
\* bracket is unchanged.
C14_ClausesRewritten ==
    pc = "usedeps"
        => /\ usedeps.exc = ""
           /\ Len(usedeps.val.c) = Len(chosen.val.c)
           /\ \A i \in 1..Len(chosen.val.c) :
                (chosen.val.c[i].s[1] = AtomP[1]
                    /\ ~HasBareNegation(chosen.val.c[i].s))
                    => usedeps.val.c[i].s
                          = Rewritten(chosen.val.c[i].s, enabled_flags)

\* "p[g?,h=]" with g and h not enabled becomes "p[-h]", and "p[g?]" in the
\* same list becomes "p"
C14_Witness ==
    /\ pc = "usedeps"
    /\ enabled_flags = {}
    /\ chosen.val.c = <<Str(AtomOf(<<<<"flag?", FlagG>>, <<"flag=", FlagH>>>>)),
                        Str(AtomOf(<<<<"flag?", FlagG>>>>))>>
    /\ usedeps.val.c = <<Str(AtomP \o <<"[", "-", "h", "]">>), Str(AtomP)>>

\* C15: a bare "!flag" clause is accepted without error and dropped: it
\* adds no marker, for every set of enabled flags, and the other clauses of
\* the atom are rewritten as usual.
C15_BareNegationDropped ==
    pc = "usedeps"
        => /\ usedeps.exc = ""
           /\ \A i \in 1..Len(chosen.val.c) :
                (chosen.val.c[i].s[1] = AtomP[1]
                    /\ HasBareNegation(chosen.val.c[i].s))
                    => usedeps.val.c[i].s
                          = Rewritten(chosen.val.c[i].s, enabled_flags)

\* "p[!g,h=]" with h enabled becomes "p[h]"
C15_Witness ==
    /\ pc = "usedeps"
    /\ enabled_flags = {FlagH}
    /\ chosen.val.c[1] = Str(AtomOf(<<<<"!flag", FlagG>>, <<"flag=", FlagH>>>>))
    /\ usedeps.val.c[1] = Str(AtomP \o <<"[", "h", "]">>)

-----------------------------------------------------------------------------
(* SpecLicense: strings of license identifiers, "||" markers and            *)
(* parentheses, taken through the pipeline of the LICENSE field             *)

MaxLicenseTokens == 6

LicenseAlphabet == {OrTok, LP, RP, AtomA, AtomB}

InitLicense == InitWith(Strings(LicenseAlphabet, MaxLicenseTokens))

NextLicense ==
    \/ ParenReduce
    \/ UseReduce({{}}, {{}}, {FALSE}, {{}})
    \/ ParenNormalize
    \/ ParenLicenseChoose

SpecLicense == InitLicense /\ [][NextLicense]_vars

\* the license identifiers of the string: its tokens other than "(", ")"
\* and "||"
Identifiers(str) ==
    {Str(Tokens(str)[i]) : i \in {j \in 1..Len(Tokens(str)) :
                                     Tokens(str)[j] \notin {LP, RP, OrTok}}}

-----------------------------------------------------------------------------
(* SpecCalc: calculate_dependencies on six raw fields *)

K_LICENSE == <<"L", "I", "C", "E", "N", "S", "E">>
K_RDEPEND == <<"R", "D", "E", "P", "E", "N", "D">>
K_DEPEND == <<"D", "E", "P", "E", "N", "D">>
K_PDEPEND == <<"P", "D", "E", "P", "E", "N", "D">>
K_PROVIDE == <<"P", "R", "O", "V", "I", "D", "E">>
K_SRC_URI == <<"S", "R", "C", "_", "U", "R", "I">>

\* for k in "LICENSE", "RDEPEND", "DEPEND", "PDEPEND", "PROVIDE", "SRC_URI"
FieldNames == {K_LICENSE, K_RDEPEND, K_DEPEND, K_PDEPEND, K_PROVIDE, K_SRC_URI}

\* s.endswith(suffix)
EndsWith(s, suffix) ==
    Len(s) >= Len(suffix)
    /\ SubSeq(s, Len(s) - Len(suffix) + 1, Len(s)) = suffix

\* deps = self.paren_normalize(deps), reached when use_reduce returned
field_paren_normalize(r) ==
    IF r.exc # "" THEN r ELSE paren_normalize(r.val)

\* deps = self.use_reduce(deps, uselist = raw_use), reached when the parse returned
field_use_reduce(p, raw_use) ==
    IF p.exc # "" THEN p
    ELSE field_paren_normalize(use_reduce(p.val.c, raw_use, {}, FALSE, {}))

\* the try body's calls up to paren_normalize, for field k
field_normalized(k, raw, raw_use) ==
    field_use_reduce(IF k = K_SRC_URI THEN src_uri_paren_reduce(raw)
                     ELSE paren_reduce(raw), raw_use)

\* the lists paren_license_choose can return for the LICENSE field
license_of(n) ==
    IF n.exc # "" THEN {<<>>} ELSE Orderings(paren_license_choose(n.val.c))

license_choices(raw, raw_use) ==
    license_of(field_normalized(K_LICENSE, raw, raw_use))

\* deps = ' '.join(deps)
field_join(u) ==
    IF u.exc # "" THEN u
    ELSE Ok(Str(Join([i \in 1..Len(u.val.c) |-> u.val.c[i].s])))

\* usedeps_reduce applied whatever the field is
field_usedeps_EveryField(k, c, enabled_use) ==
    IF c.exc # "" THEN c
    ELSE field_join(usedeps_reduce(c.val.c, enabled_use))

\* if k.endswith("DEPEND"): deps = self.usedeps_reduce(deps, enabled_use)
field_usedeps(k, c, enabled_use) ==
    IF c.exc # "" THEN c
    ELSE field_join(IF EndsWith(k, K_DEPEND)
                    THEN usedeps_reduce(c.val.c, enabled_use) ELSE c)

\* if k == "LICENSE": paren_license_choose, else: paren_choose
field_choose(k, n, enabled_use, inst, license) ==
    IF n.exc # "" THEN n
    ELSE field_usedeps(k, IF k = K_LICENSE THEN Ok(Lst(license))
                          ELSE paren_choose(n.val, inst), enabled_use)

\* the try body for field k: the joined string, or the exception raised
field_deps(k, raw, raw_use, enabled_use, inst, license) ==
    field_choose(k, field_normalized(k, raw, raw_use), enabled_use, inst, license)

\* raw_use = my_use.split()
raw_use_of(f) == {Tokens(f.use)[i] : i \in 1..Len(Tokens(f.use))}

\* enabled_use = sorted(self._resolve_enabled_useflags(my_iuse.split(), raw_use))
enabled_use_of(f) ==
    resolve_enabled_useflags(Tokens(f.iuse), raw_use_of(f), f.mask, f.force)

\* the metadata returned once every field's try body has run with outcome out[k].
\* A field whose try body raised is reported through updateProgress (errors),
\* deps = '' and continue: metadata[k] keeps its raw value.
metadata_of(f, out, raw_use, enabled_use) ==
    [exc |-> "",
     val |-> [k \in FieldNames |-> IF out[k].exc = "" THEN out[k].val ELSE f.raw[k]],
     errors |-> {k \in FieldNames : out[k].exc # ""},
     use_mask |-> f.mask,
     use_force |-> f.force,
     enabled_use |-> enabled_use,
     use |-> (raw_use \cup f.force) \ f.mask]

\* the loop "for k in RDEPEND, DEPEND, PDEPEND, LICENSE, PROVIDE, SRC_URI"
field_outcomes(f, raw_use, enabled_use, inst, license) ==
    [k \in FieldNames |-> field_deps(k, f.raw[k], raw_use, enabled_use, inst, license)]

calculate_dependencies_with(f, raw_use, enabled_use, inst, license) ==
    metadata_of(f, field_outcomes(f, raw_use, enabled_use, inst, license),
                raw_use, enabled_use)

calculate_dependencies(f, inst, license) ==
    calculate_dependencies_with(f, raw_use_of(f), enabled_use_of(f), inst, license)

CalculateDependencies(insts) ==
    /\ pc = "call"
    /\ \E inst \in insts :
       \E license \in license_choices(fields.raw[K_LICENSE], raw_use_of(fields)) :
        /\ installed' = inst
        /\ metadata' = calculate_dependencies(fields, inst, license)
    /\ pc' = "calculated"
    /\ UNCHANGED <<mystr, uselist, masklist, matchall, excludeall,
                   parsed, reduced, normalized, normalized2, chosen, fields,
                   enabled_flags, usedeps>>
    /\ UNCHANGED cacher_vars

\* the raw strings a field is given: an atom, a string with an unmatched
\* "(", a guarded group
CalcStrings ==
    {Str(Join(<<AtomA>>)),
     Str(Join(<<AtomA, LP, AtomB>>)),
     Str(Join(<<GuardG, LP, AtomC, RP>>))}

InitCalc ==
    /\ pc = "call"
    /\ mystr = Str(<<>>)
    /\ uselist = {}
    /\ masklist = {}
    /\ matchall = FALSE
    /\ excludeall = {}
    /\ installed = {}
    /\ parsed = Unset
    /\ reduced = Unset
    /\ normalized = Unset
    /\ normalized2 = Unset
    /\ chosen = Unset
    /\ fields \in [raw : [FieldNames -> CalcStrings],
                   iuse : {Str(<<>>), Str(FlagG)},
                   use : {Str(<<>>), Str(FlagG)},
                   mask : SUBSET {FlagG},
                   force : SUBSET {FlagG}]
    /\ metadata = Unset
    /\ enabled_flags = {}
    /\ usedeps = Unset
    /\ CacherInit

NextCalc == CalculateDependencies({{}, {AtomA}})

SpecCalc == InitCalc /\ [][NextCalc]_vars

\* C4: when a field is malformed, calculate_dependencies propagates the
\* failure: it returns no metadata map, so it neither substitutes an empty
\* result nor leaves the raw string as the field's value.
C4_MalformedFieldPropagates ==
    (pc = "calculated" /\ \E k \in FieldNames : HasUnmatchedLeftParen(fields.raw[k]))
        => metadata.exc # ""

\* the string of a group guarded by g?
GuardedGroup == Str(Join(<<GuardG, LP, AtomC, RP>>))

\* C19: the conditional reduction of each field honours the masked and the
\* forced flags: a group guarded by "g?" is pruned when g is masked, even if
\* g is in the raw USE, and is included when g is forced (and not masked),
\* even if g is not in the raw USE.
C19_ReductionHonoursMaskAndForce ==
    pc = "calculated"
        => \A k \in FieldNames :
              (fields.raw[k] = GuardedGroup /\ k \notin metadata.errors)
                  => /\ FlagG \in fields.mask => metadata.val[k] = Str(<<>>)
                     /\ (FlagG \in fields.force /\ FlagG \notin fields.mask)
                            => metadata.val[k] = Str(AtomC)

-----------------------------------------------------------------------------
(* SpecSrcUri: calculate_dependencies with a SRC_URI field of URIs, "->",   *)
(* parentheses and the guard g?, the other fields holding one atom          *)

MaxSrcUriTokens == 5

SrcUriAlphabet == {AtomA, AtomB, Arrow, LP, RP, GuardG}

InitSrcUri ==
    /\ pc = "call"
    /\ mystr = Str(<<>>)
    /\ uselist = {}
    /\ masklist = {}
    /\ matchall = FALSE
    /\ excludeall = {}
    /\ installed = {}
    /\ parsed = Unset
    /\ reduced = Unset
    /\ normalized = Unset
    /\ normalized2 = Unset
    /\ chosen = Unset
    /\ \E uri \in Strings(SrcUriAlphabet, MaxSrcUriTokens) :
          fields \in [raw : {[k \in FieldNames |->
                                IF k = K_SRC_URI THEN uri ELSE Str(AtomA)]},
                      iuse : {Str(FlagG)},
                      use : {Str(<<>>), Str(FlagG)},
                      mask : {{}},
                      force : {{}}]
    /\ metadata = Unset
    /\ enabled_flags = {}
    /\ usedeps = Unset
    /\ CacherInit

NextSrcUri == CalculateDependencies({{}, {AtomA}})

SpecSrcUri == InitSrcUri /\ [][NextSrcUri]_vars

\* every "->" of the string stands between two URIs
ProperRenamePairs(str) ==
    \A i \in 1..Len(Tokens(str)) :
        Tokens(str)[i] = Arrow
            => /\ 1 < i /\ i < Len(Tokens(str))
               /\ Tokens(str)[i - 1] \in {AtomA, AtomB}
               /\ Tokens(str)[i + 1] \in {AtomA, AtomB}

\* C17: every rename pair "original -> renamed" of SRC_URI is collapsed:
\* no "->" is left in the field's output, wherever the pair stands, inside
\* a parenthesized or guarded group too.
C17_RenamePairsCollapsed ==
    (pc = "calculated" /\ K_SRC_URI \notin metadata.errors
        /\ Balanced(fields.raw[K_SRC_URI])
        /\ ProperRenamePairs(fields.raw[K_SRC_URI]))
        => \A i \in 1..Len(Tokens(metadata.val[K_SRC_URI])) :
              Tokens(metadata.val[K_SRC_URI])[i] # Arrow

-----------------------------------------------------------------------------
(* SpecCalcUsedeps: calculate_dependencies on fields that hold one atom,    *)
(* with or without a bracket of clauses over the flag g                     *)

BracketStrings ==
    {Str(AtomA),
     Str(AtomOf(<<<<"flag?", FlagG>>, <<"!flag=", FlagG>>>>)),
     Str(AtomOf(<<<<"flag=", FlagG>>, <<"!flag?", FlagG>>>>))}

InitCalcUsedeps ==
    /\ pc = "call"
    /\ mystr = Str(<<>>)
    /\ uselist = {}
    /\ masklist = {}
    /\ matchall = FALSE
    /\ excludeall = {}
    /\ installed = {}
    /\ parsed = Unset
    /\ reduced = Unset
    /\ normalized = Unset
    /\ normalized2 = Unset
    /\ chosen = Unset
    /\ fields \in [raw : [FieldNames -> BracketStrings],
                   iuse : {Str(FlagG)},
                   use : {Str(<<>>), Str(FlagG)},
                   mask : SUBSET {FlagG},
                   force : SUBSET {FlagG}]
    /\ metadata = Unset
    /\ enabled_flags = {}
    /\ usedeps = Unset
    /\ CacherInit

NextCalcUsedeps == CalculateDependencies({{}, {AtomA}})

SpecCalcUsedeps == InitCalcUsedeps /\ [][NextCalcUsedeps]_vars

\* a clause "flag=", "!flag=", "flag?" or "!flag?" is left in the string
HasConditionalClause(str) == \E i \in 1..Len(str.s) : str.s[i] \in {"=", "?"}

\* the declared flags that are in USE or forced, and not masked
ResolvedEnabled ==
    {f \in {Tokens(fields.iuse)[i] : i \in 1..Len(Tokens(fields.iuse))} :
        /\ \/ f \in {Tokens(fields.use)[i] : i \in 1..Len(Tokens(fields.use))}
           \/ f \in fields.force
        /\ f \notin fields.mask}

\* the field's atom with its bracket rewritten against the enabled flags
RewrittenField(k) ==
    IF fields.raw[k].s[1] = AtomP[1]
    THEN Str(Rewritten(fields.raw[k].s, ResolvedEnabled))
    ELSE fields.raw[k]

\* C18 as claimed: usedeps_reduce is applied to DEPEND, RDEPEND, PDEPEND and
\* PROVIDE, so none of them keeps a clause "flag=", "!flag=", "flag?" or
\* "!flag?", and LICENSE and SRC_URI are left as they are.
C18_UsedepsAppliedToFourFields ==
    pc = "calculated"
        => /\ \A k \in {K_DEPEND, K_RDEPEND, K_PDEPEND, K_PROVIDE} :
                ~HasConditionalClause(metadata.val[k])
           /\ \A k \in {K_LICENSE, K_SRC_URI} : metadata.val[k] = fields.raw[k]

\* C18 as the code has it: usedeps_reduce is applied, with the resolved
\* enabled flags, to the three fields whose name ends in DEPEND, none of
\* which keeps such a clause; PROVIDE, LICENSE and SRC_URI are left alone.
C18_UsedepsAppliedToDependFields ==
    pc = "calculated"
        => /\ metadata.errors = {}
           /\ \A k \in {K_DEPEND, K_RDEPEND, K_PDEPEND} :
                /\ metadata.val[k] = RewrittenField(k)
                /\ ~HasConditionalClause(metadata.val[k])
           /\ \A k \in {K_LICENSE, K_PROVIDE, K_SRC_URI} :
                metadata.val[k] = fields.raw[k]

\* DEPEND and PROVIDE hold "p[g?,!g=]" and g is enabled: DEPEND becomes
\* "p[g,-g]" and PROVIDE is unchanged
C18_Witness ==
    /\ pc = "calculated"
    /\ ResolvedEnabled = {FlagG}
    /\ fields.raw[K_DEPEND] = Str(AtomOf(<<<<"flag?", FlagG>>, <<"!flag=", FlagG>>>>))
    /\ fields.raw[K_PROVIDE] = fields.raw[K_DEPEND]
    /\ metadata.val[K_DEPEND] = Str(AtomP \o <<"[", "g", ",", "-", "g", "]">>)
    /\ metadata.val[K_PROVIDE] = fields.raw[K_PROVIDE]

-----------------------------------------------------------------------------
(* SpecEnabled: calculate_dependencies with IUSE entries g, +g, -g, h, +h,  *)
(* a raw USE over g and h, and masked and forced sets over g and h          *)

MaxIuseTokens == 2

IuseAlphabet ==
    {FlagG, <<"+">> \o FlagG, <<"-">> \o FlagG, FlagH, <<"+">> \o FlagH}

UseStrings ==
    {Str(<<>>), Str(FlagG), Str(FlagH), Str(Join(<<FlagG, FlagH>>))}

InitEnabled ==
    /\ pc = "call"
    /\ mystr = Str(<<>>)
    /\ uselist = {}
    /\ masklist = {}
    /\ matchall = FALSE
    /\ excludeall = {}
    /\ installed = {}
    /\ parsed = Unset
    /\ reduced = Unset
    /\ normalized = Unset
    /\ normalized2 = Unset
    /\ chosen = Unset
    /\ fields \in [raw : {[k \in FieldNames |-> Str(AtomA)]},
                   iuse : Strings(IuseAlphabet, MaxIuseTokens),
                   use : UseStrings,
                   mask : SUBSET {FlagG, FlagH},
                   force : SUBSET {FlagG, FlagH}]
    /\ metadata = Unset
    /\ enabled_flags = {}
    /\ usedeps = Unset
    /\ CacherInit

NextEnabled == CalculateDependencies({{}, {AtomA}})

SpecEnabled == InitEnabled /\ [][NextEnabled]_vars

\* the words of a string, as a set
Words(str) == {Tokens(str)[i] : i \in 1..Len(Tokens(str))}

\* the declared optional flags: the IUSE entries without a leading "+" or "-"
DeclaredFlags ==
    {IF w[1] = "+" \/ w[1] = "-" THEN SubSeq(w, 2, Len(w)) ELSE w :
        w \in Words(fields.iuse)}

\* C20: the enabled set is exactly the declared optional flags (the IUSE
\* entries with a leading "+" or "-" stripped) that are in the raw USE or
\* forced, and not masked; it is a subset of the declared flags and holds no
\* masked flag.
C20_EnabledIsDeclaredUsedOrForcedNotMasked ==
    pc = "calculated"
        => /\ metadata.enabled_use =
                {f \in DeclaredFlags :
                    /\ f \in Words(fields.use) \/ f \in fields.force
                    /\ f \notin fields.mask}
           /\ metadata.enabled_use \subseteq DeclaredFlags
           /\ metadata.enabled_use \cap fields.mask = {}

\* IUSE "+g h", g in the raw USE, h forced and masked: only g is enabled
C20_Witness ==
    /\ pc = "calculated"
    /\ Tokens(fields.iuse) = <<(<<"+">> \o FlagG), FlagH>>
    /\ Words(fields.use) = {FlagG}
    /\ fields.force = {FlagH}
    /\ fields.mask = {FlagH}
    /\ metadata.enabled_use = {FlagG}

-----------------------------------------------------------------------------
(* SpecCacher: one caller thread, the writer thread and the forked          *)
(* processes, under every interleaving; the caller starts and stops the     *)
(* cacher, pushes, pops, syncs and enters and leaves with-blocks            *)

MaxPushes == 2
MaxDepth == 1

InitCacher == InitWith({Str(<<>>)})

NextCacher ==
    \/ \E t \in Clients :
          \/ Start(t)
          \/ Stop(t)
          \/ StopJoined(t)
          \/ Sync(t)
          \/ Push(t, CacheKeys, CacheData, BOOLEAN, MaxPushes)
          \/ Pop(t, CacheKeys)
          \/ Enter(t, MaxDepth)
          \/ Exit(t)
    \/ WriterTick
    \/ \E t \in Threads : CacherLoop(t)
    \/ \E t \in Threads : CacherForget(t)
    \/ \E p \in 1..Len(procs) : ChildWrite(p)

SpecCacher == InitCacher /\ [][NextCacher]_vars

\* C24: with the cacher started and no thread inside a with-block, once
\* sync() has returned the write buffer is empty and, for every key whose
\* most recent push was asynchronous, the object on disk, and so what pop
\* returns, is the data of that push.
C24_SyncFlushesLatest ==
    (calls.last = <<"sync">> /\ cacher.alive /\ cacher.inside_with_stmt = 0)
        => /\ cacher.cache_buffer = <<>>
           /\ \A k \in CacheKeys :
                 calls.latest[k] # None
                     => /\ disk[k] = calls.latest[k]
                        /\ pop(cacher, disk, k) = calls.latest[k]

\* C29: with the cacher started, after an asynchronous push(key, d) every
\* pop(key) returns d until the next push of the key, under every
\* interleaving with the writer thread and the forked processes.
C29_PopReturnsLatestPush ==
    (Len(calls.last) = 3 /\ calls.last[1] = "pop" /\ cacher.alive)
        => (calls.latest[calls.last[2]] # None
               => calls.last[3] = calls.latest[calls.last[2]])

\* C26: while a thread is inside a with-block no queued object is written
\* to disk: no forked process writes an object while the nesting depth is
\* above 0.
C26_NoWriteInsideWith ==
    [][(Len(procs') = Len(procs) /\ procs' # procs)
          => cacher.inside_with_stmt = 0]_vars

\* C25: push, asynchronous or not, has an effect only if start() has been
\* called and stop() has not been called since: any other call of push
\* leaves the buffer, the stash and the disk as they are.
C25_PushOnlyWhileStarted ==
    [][(calls'.npush # calls.npush /\ ~calls.started)
          => (cacher' = cacher /\ disk' = disk)]_vars

\* the cacher was started, "d1" was pushed for k1 and flushed by stop(), and
\* a push of "d2" for k1 made after stop() has left no trace
C25_Witness ==
    /\ calls.last = <<"push", "k1", "d2", TRUE>>
    /\ ~calls.started /\ ~cacher.alive /\ ~cacher.cache_writer
    /\ calls.npush = 2
    /\ Len(procs) = 1
    /\ cacher.cache_buffer = <<>>
    /\ cacher.stashing_cache["k1"] = None
    /\ disk["k1"] = "d1"

-----------------------------------------------------------------------------
(* SpecProcs: a started cacher, one caller pushing an object whenever the   *)
(* buffer is empty, the writer thread forking a process for every batch,    *)
(* and the processes writing in the order they were forked                  *)

MaxProcPushes == 11

InitProcs == InitWith({Str(<<>>)})

NextProcs ==
    \/ \E t \in Clients :
          \/ Start(t)
          \/ /\ cacher.cache_buffer = <<>>
             /\ Push(t, {"k1"}, {"d1"}, {TRUE}, MaxProcPushes)
    \/ WriterTick
    \/ CacherLoop(Writer)
    \/ CacherForget(Writer)
    \/ \E p \in 1..Len(procs) :
          /\ \A q \in 1..(p - 1) : Len(procs[q]) = 0
          /\ ChildWrite(p)

SpecProcs == InitProcs /\ [][NextProcs]_vars

\* C30: the number of forked writer processes the cacher tracks in its pid
\* set is at most _PROC_LIMIT in every reachable state.
C30_PidsWithinLimit == Cardinality(cacher.proc_pids) <= PROC_LIMIT

=============================================================================
